---------------------------- MODULE Spec2Model ----------------------------
(***************************************************************************)
(* Query routing and response composition of the documentation assistant:  *)
(* api-server/src/services/aiService.js (AIService),                       *)
(* api-server/src/services/algoliaService.js (AlgoliaService),             *)
(* api-server/src/routes/chat.js, the rate limiter of the API server and   *)
(* the assistant panel of the site (AIAssistantNavbarItem.tsx).            *)
(*                                                                         *)
(* JavaScript strings are TLA+ strings; TLC's Len, SubSeq and \o work on   *)
(* them character by character, so includes(), split('#'), toLowerCase()   *)
(* and the regular expressions are modelled on the characters.             *)
(***************************************************************************)
EXTENDS Integers, Sequences, FiniteSets, TLC

VARIABLES
  fbPc, fbMessage, fbResult,     \* generateFallbackResponse: position, argument, result
  blPc, blHits, blLinks,         \* buildStructuredLinks: position, argument, result
  pc, request, response, status, \* a chat request: position, body, value returned, HTTP status
  algolia,                       \* the AlgoliaService singleton: initialized, client
  query, searchEnd, algoliaHits, \* the search call: query sent, how it ended, hits kept
  prompt, timer, llamaEnd,       \* the generation call: prompt sent, abort timer, how it ended
  calls,                         \* the collaborators called for the request, in order
  txPc, txText, txResult,        \* a text function of AIService: position, argument, result
  clPc, clActions, clBrowser,    \* the assistant panel: position, actions of the reply, browser
  requestCounts, rlNow,          \* the rate limiter: its map, the clock
  rlRequest, rlAnswer, rlPassed, \* the request it handled last, its answer, requests passed on
  rlLog,                         \* the identifier and the time of each request passed on
  rrPc, rrHits, rrIntent,        \* rerankResults: position, hits and query intent given
  rrResult                       \* rerankResults: the hits returned

fbVars == <<fbPc, fbMessage, fbResult>>
blVars == <<blPc, blHits, blLinks>>
chVars ==
  <<pc, request, algolia, query, searchEnd, algoliaHits, prompt, timer, llamaEnd, calls,
    status, response>>
txVars == <<txPc, txText, txResult>>
clVars == <<clPc, clActions, clBrowser>>
rlVars == <<requestCounts, rlNow, rlRequest, rlAnswer, rlPassed, rlLog>>
rrVars == <<rrPc, rrHits, rrIntent, rrResult>>
vars == <<fbVars, blVars, chVars, txVars, clVars, rlVars, rrVars>>

---------------------------------------------------------------------------
(* String primitives                                                       *)

\* s.charAt(i - 1): the i-th character (1-based), "" outside the string.
CharAt(s, i) == IF i >= 1 /\ i <= Len(s) THEN SubSeq(s, i, i) ELSE ""

\* s.includes(sub)
includes(s, sub) ==
  \E i \in 0..(Len(s) - Len(sub)) : SubSeq(s, i + 1, i + Len(sub)) = sub

\* s.indexOf(sub) + 1: the place of the first occurrence, 0 when there is none
IndexOf(s, sub) ==
  IF includes(s, sub)
    THEN 1 + CHOOSE i \in 0..(Len(s) - Len(sub)) :
               /\ SubSeq(s, i + 1, i + Len(sub)) = sub
               /\ \A j \in 0..(i - 1) : SubSeq(s, j + 1, j + Len(sub)) # sub
    ELSE 0

\* s.split(sep)[0]
SplitFirst(s, sep) ==
  IF IndexOf(s, sep) = 0 THEN s ELSE SubSeq(s, 1, IndexOf(s, sep) - 1)

\* the white space of \s and of trim() among the characters used
Spaces == {" ", "\n", "\t", "\r"}
IsSpace(c) == c \in Spaces

\* s.trim()
trim(s) ==
  IF \A i \in 1..Len(s) : IsSpace(SubSeq(s, i, i)) THEN ""
  ELSE LET first == CHOOSE i \in 1..Len(s) :
                      /\ ~IsSpace(SubSeq(s, i, i))
                      /\ \A j \in 1..(i - 1) : IsSpace(SubSeq(s, j, j))
           last == CHOOSE i \in 1..Len(s) :
                     /\ ~IsSpace(SubSeq(s, i, i))
                     /\ \A j \in (i + 1)..Len(s) : IsSpace(SubSeq(s, j, j))
       IN SubSeq(s, first, last)

UpperAlpha == "ABCDEFGHIJKLMNOPQRSTUVWXYZ"
LowerAlpha == "abcdefghijklmnopqrstuvwxyz"
Digits == "0123456789"

CharsOf(s) == {SubSeq(s, i, i) : i \in 1..Len(s)}

IsUpper(c) == c \in CharsOf(UpperAlpha)
IsLower(c) == c \in CharsOf(LowerAlpha)

\* the regular-expression class \w
IsWordChar(c) == c \in CharsOf(UpperAlpha) \cup CharsOf(LowerAlpha) \cup CharsOf(Digits) \cup {"_"}

LowerChar(c) ==
  IF IsUpper(c)
    THEN LET i == CHOOSE k \in 1..Len(UpperAlpha) : SubSeq(UpperAlpha, k, k) = c
         IN SubSeq(LowerAlpha, i, i)
    ELSE c

\* s.toLowerCase()
RECURSIVE toLowerCase(_)
toLowerCase(s) ==
  IF Len(s) = 0 THEN ""
  ELSE IF Len(s) = 1 THEN LowerChar(s)
  ELSE LET mid == Len(s) \div 2
       IN toLowerCase(SubSeq(s, 1, mid)) \o toLowerCase(SubSeq(s, mid + 1, Len(s)))

\* the regular-expression assertion \b at offset k of s (between the k-th and
\* the (k+1)-th character)
WordBoundary(s, k) == IsWordChar(CharAt(s, k)) # IsWordChar(CharAt(s, k + 1))

\* /\b(t1|t2|...)\b/.test(s) for a sequence of literal alternatives
TestWholeWord(terms, s) ==
  \E t \in 1..Len(terms) :
    \E i \in 0..(Len(s) - Len(terms[t])) :
      /\ SubSeq(s, i + 1, i + Len(terms[t])) = terms[t]
      /\ WordBoundary(s, i)
      /\ WordBoundary(s, i + Len(terms[t]))

\* s[a..b] lies within s and every character of it is in the class, a set of
\* characters
AllChars(s, a, b, class) ==
  \A k \in a..b : k >= 1 /\ k <= Len(s) /\ SubSeq(s, k, k) \in class

\* the literal word (given in lower case) stands at place p of s, letter case
\* ignored: the i flag
WordAtCI(s, p, word) ==
  /\ p >= 1
  /\ p + Len(word) - 1 <= Len(s)
  /\ toLowerCase(SubSeq(s, p, p + Len(word) - 1)) = word

\* the literal word stands at place p of s
WordAt(s, p, word) ==
  /\ p >= 1
  /\ p + Len(word) - 1 <= Len(s)
  /\ SubSeq(s, p, p + Len(word) - 1) = word

\* the least element of a set of places, 0 for the empty set
Least(S) == IF S = {} THEN 0 ELSE CHOOSE i \in S : \A j \in S : i <= j

\* the place of the first character c at or after place from; Len(s) + 1 when
\* there is none
NextChar(s, from, c) ==
  LET S == {k \in from..Len(s) : SubSeq(s, k, k) = c}
  IN IF S = {} THEN Len(s) + 1 ELSE Least(S)

---------------------------------------------------------------------------
(* Offline Fallback Router: AIService.generateFallbackResponse             *)

authRoute ==
  [keywords |-> <<"authenticate", "authentication", "login", "log in", "sign up",
                  "signup", "oauth", "bearer token", "api key", "access token">>,
   url |-> "/quickstart-guides/authentication-quickstart-guide/",
   title |-> "Authentication Quickstart",
   related |-> <<[title |-> "Before You Begin", path |-> "/getting-started/before-you-begin/"],
                 [title |-> "REST API Reference", path |-> "/getting-started/rest-api-reference/"]>>]

\* the alternatives of the isExplicitAuthQuestion regular expression
authPattern ==
  <<"authenticate", "authentication", "login", "log in", "sign up",
    "signup", "oauth", "bearer token", "api key", "access token">>

isExplicitAuthQuestion(lowerMessage) == TestWholeWord(authPattern, lowerMessage)

contentRoutes ==
  <<
    [keywords |-> <<"create campaign", "new campaign", "launch campaign", "campaign quickstart">>,
     url |-> "/quickstart-guides/create-a-campaign-quickstart/", title |-> "Create a Campaign Quickstart",
     related |-> <<[title |-> "Campaign API", path |-> "/guidelines/campaign-api/"], [title |-> "Create a PG Campaign", path |-> "/tutorials/create-a-pg-campaign/"]>>],
    [keywords |-> <<"pg campaign", "programmatic guaranteed campaign", "programmatic guaranteed">>,
     url |-> "/tutorials/create-a-pg-campaign/", title |-> "Create a PG Campaign",
     related |-> <<[title |-> "Campaign API", path |-> "/guidelines/campaign-api/"], [title |-> "Create a Deal", path |-> "/tutorials/deal-guide/"]>>],
    [keywords |-> <<"get campaign", "campaign details", "campaign by id", "find campaign", "campaign info">>,
     url |-> "/guidelines/campaign-api/#get-campaign-details-by-id", title |-> "Get Campaign Details by ID",
     related |-> <<[title |-> "Get List of Campaigns", path |-> "/guidelines/campaign-api/#get-list-of-campaigns"], [title |-> "Campaign Resource Properties", path |-> "/guidelines/campaign-api/#campaign-resource-properties"]>>],
    [keywords |-> <<"list campaigns", "all campaigns", "campaign list", "search campaigns", "filter campaigns">>,
     url |-> "/guidelines/campaign-api/#get-list-of-campaigns", title |-> "Get List of Campaigns",
     related |-> <<[title |-> "Get Campaign Details by ID", path |-> "/guidelines/campaign-api/#get-campaign-details-by-id"], [title |-> "Get Campaign Count by Status", path |-> "/guidelines/campaign-api/#get-campaign-count-by-status"]>>],
    [keywords |-> <<"campaign count", "count campaigns", "campaign status count", "running campaigns", "pending campaigns", "paused campaigns">>,
     url |-> "/guidelines/campaign-api/#get-campaign-count-by-status", title |-> "Get Campaign Count by Status",
     related |-> <<[title |-> "Get List of Campaigns", path |-> "/guidelines/campaign-api/#get-list-of-campaigns"]>>],
    [keywords |-> <<"campaign type count", "campaign types", "type of campaign", "cpm campaign", "cpc campaign">>,
     url |-> "/guidelines/campaign-api/#get-campaign-count-with-campaign-type", title |-> "Get Campaign Count with Campaign Type",
     related |-> <<[title |-> "Get List of Campaign Budget Types", path |-> "/guidelines/campaign-api/#get-list-of-campaign-budget-types"]>>],
    [keywords |-> <<"budget type", "campaign budget types", "budget type list">>,
     url |-> "/guidelines/campaign-api/#get-list-of-campaign-budget-types", title |-> "Get List of Campaign Budget Types",
     related |-> <<[title |-> "Campaign Resource Properties", path |-> "/guidelines/campaign-api/#campaign-resource-properties"]>>],
    [keywords |-> <<"add campaign", "create campaign api", "new campaign api", "campaign create endpoint">>,
     url |-> "/guidelines/campaign-api/#create-campaign", title |-> "Create Campaign",
     related |-> <<[title |-> "Create a Campaign Quickstart", path |-> "/quickstart-guides/create-a-campaign-quickstart/"], [title |-> "Campaign Resource Properties", path |-> "/guidelines/campaign-api/#campaign-resource-properties"]>>],
    [keywords |-> <<"update campaign", "modify campaign", "edit campaign", "change campaign", "campaign update">>,
     url |-> "/guidelines/campaign-api/#update-campaign", title |-> "Update Campaign",
     related |-> <<[title |-> "Get Campaign Details by ID", path |-> "/guidelines/campaign-api/#get-campaign-details-by-id"]>>],
    [keywords |-> <<"update audience targeting", "modify audience targeting", "edit audience targeting", "change audience targeting">>,
     url |-> "/guidelines/campaign-api/#update-audience-targeting-in-campaigns", title |-> "Update Audience Targeting",
     related |-> <<[title |-> "Get Campaign Details by ID", path |-> "/guidelines/campaign-api/#get-campaign-details-by-id"], [title |-> "Audience Details List", path |-> "/guidelines/audience-api/#audience-details-list"]>>],
    [keywords |-> <<"campaign status", "pause campaign", "resume campaign", "start campaign", "stop campaign", "approve campaign", "reject campaign">>,
     url |-> "/guidelines/campaign-api/#update-campaign-status", title |-> "Update Campaign Status",
     related |-> <<[title |-> "Get Campaign Count by Status", path |-> "/guidelines/campaign-api/#get-campaign-count-by-status"]>>],
    [keywords |-> <<"delete campaign", "remove campaign", "delete campaigns">>,
     url |-> "/guidelines/campaign-api/#delete-campaign", title |-> "Delete Campaign",
     related |-> <<[title |-> "Get List of Campaigns", path |-> "/guidelines/campaign-api/#get-list-of-campaigns"]>>],
    [keywords |-> <<"duplicate campaign", "copy campaign", "clone campaign">>,
     url |-> "/guidelines/campaign-api/#duplicate-campaign", title |-> "Duplicate Campaign",
     related |-> <<[title |-> "Create Campaign", path |-> "/guidelines/campaign-api/#create-campaign"]>>],
    [keywords |-> <<"insertion order", "io", "create io", "insertion order list", "io details">>,
     url |-> "/guidelines/campaign-api/#insertion-order-operations", title |-> "Insertion Order Operations",
     related |-> <<[title |-> "Create Insertion Order", path |-> "/guidelines/campaign-api/#create-insertion-order"], [title |-> "Campaign API", path |-> "/guidelines/campaign-api/"]>>],
    [keywords |-> <<"create insertion order", "new io", "add io">>,
     url |-> "/guidelines/campaign-api/#create-insertion-order", title |-> "Create Insertion Order",
     related |-> <<[title |-> "Insertion Order Operations", path |-> "/guidelines/campaign-api/#insertion-order-operations"]>>],
    [keywords |-> <<"update insertion order", "edit io", "modify io">>,
     url |-> "/guidelines/campaign-api/#update-insertion-order", title |-> "Update Insertion Order",
     related |-> <<[title |-> "Insertion Order Operations", path |-> "/guidelines/campaign-api/#insertion-order-operations"]>>],
    [keywords |-> <<"campaign", "campaign api", "advertising campaign">>,
     url |-> "/guidelines/campaign-api/", title |-> "Campaign API",
     related |-> <<[title |-> "Create a Campaign", path |-> "/quickstart-guides/create-a-campaign-quickstart/"], [title |-> "Create a PG Campaign", path |-> "/tutorials/create-a-pg-campaign/"]>>],
    [keywords |-> <<"add creative", "add new creative", "create creative", "new creative", "batch creative", "multipart creative">>,
     url |-> "/guidelines/creative-api/#add-new-creative", title |-> "Add New Creative",
     related |-> <<[title |-> "Upload a Creative Quickstart", path |-> "/quickstart-guides/upload-a-creative-quickstart/"], [title |-> "Get Creative Types List", path |-> "/guidelines/creative-api/#get-creative-types-list"]>>],
    [keywords |-> <<"update creative", "edit creative", "modify creative", "change creative name", "creative name", "rename creative", "external creative id", "creative remarks">>,
     url |-> "/guidelines/creative-api/#update-creative-details", title |-> "Update Creative Details",
     related |-> <<[title |-> "Update Creative Details", path |-> "/guidelines/creative-api/#update-creative-details"]>>],
    [keywords |-> <<"creative status", "update creative status", "approve creative", "reject creative", "creative approval", "creative rejection", "rejection reason">>,
     url |-> "/guidelines/creative-api/#update-creative-status", title |-> "Update Creative Status",
     related |-> <<[title |-> "Get Creative Status List", path |-> "/guidelines/creative-api/#get-creative-status-list"], [title |-> "Update Creative Status", path |-> "/guidelines/creative-api/#update-creative-status"]>>],
    [keywords |-> <<"get creative", "list creatives", "creative details", "creative by id", "find creative", "search creative", "filter creative">>,
     url |-> "/guidelines/creative-api/#get-list-of-creatives-and-details", title |-> "Get List of Creatives",
     related |-> <<[title |-> "Get List of Creatives", path |-> "/guidelines/creative-api/#get-list-of-creatives-and-details"], [title |-> "Creative Details by ID", path |-> "/guidelines/creative-api/#creative-details-by-id"], [title |-> "Get Creative Count by Type", path |-> "/guidelines/creative-api/#get-creative-count-by-type"]>>],
    [keywords |-> <<"create creative group", "new creative group", "add creative group", "creative group">>,
     url |-> "/guidelines/creative-api/#create-new-creative-group", title |-> "Create Creative Group",
     related |-> <<[title |-> "Create Creative Group", path |-> "/guidelines/creative-api/#create-new-creative-group"]>>],
    [keywords |-> <<"delete creative group", "remove creative group">>,
     url |-> "/guidelines/creative-api/#delete-creative-group", title |-> "Delete Creative Group",
     related |-> <<[title |-> "Delete Creative Group", path |-> "/guidelines/creative-api/#delete-creative-group"]>>],
    [keywords |-> <<"add creatives to group", "remove creatives from group", "modify creative group", "manage creative group">>,
     url |-> "/guidelines/creative-api/#update-creative-groups", title |-> "Update Creative Groups",
     related |-> <<[title |-> "Create Creative Group", path |-> "/guidelines/creative-api/#create-new-creative-group"], [title |-> "Get List of Creative Groups", path |-> "/guidelines/creative-api/#get-list-of-creative-groups"]>>],
    [keywords |-> <<"rename creative group", "update creative group name", "change creative group name", "edit creative group name">>,
     url |-> "/guidelines/creative-api/#update-creative-group-name", title |-> "Update Creative Group Name",
     related |-> <<[title |-> "Update Creative Group Name", path |-> "/guidelines/creative-api/#update-creative-group-name"]>>],
    [keywords |-> <<"duplicate creative", "copy creative", "clone creative", "duplicate creatives">>,
     url |-> "/guidelines/creative-api/#duplicate-creatives", title |-> "Duplicate Creatives",
     related |-> <<[title |-> "Duplicate Creatives", path |-> "/guidelines/creative-api/#duplicate-creatives"]>>],
    [keywords |-> <<"duplicate creative group", "copy creative group", "clone creative group">>,
     url |-> "/guidelines/creative-api/#duplicate-creative-group", title |-> "Duplicate Creative Group",
     related |-> <<[title |-> "Duplicate Creatives", path |-> "/guidelines/creative-api/#duplicate-creatives"], [title |-> "Create Creative Group", path |-> "/guidelines/creative-api/#create-new-creative-group"]>>],
    [keywords |-> <<"compress image", "compress creative", "image compression", "reduce image size", "optimize image">>,
     url |-> "/guidelines/creative-api/#compress-uploaded-image-creative", title |-> "Compress Image Creative",
     related |-> <<[title |-> "Compress Uploaded Image Creative", path |-> "/guidelines/creative-api/#compress-uploaded-image-creative"]>>],
    [keywords |-> <<"pixel url", "update pixel url", "impression pixel", "tracking pixel", "pixel conversion">>,
     url |-> "/guidelines/creative-api/#update-pixel-url", title |-> "Update Pixel URL",
     related |-> <<[title |-> "Update Pixel URL", path |-> "/guidelines/creative-api/#update-pixel-url"], [title |-> "Conversion API", path |-> "/guidelines/conversion-api/"]>>],
    [keywords |-> <<"click url", "update click url", "landing page url", "destination url", "click through url">>,
     url |-> "/guidelines/creative-api/#update-click-url", title |-> "Update Click URL",
     related |-> <<[title |-> "Update Click URL", path |-> "/guidelines/creative-api/#update-click-url"], [title |-> "Conversion API", path |-> "/guidelines/conversion-api/"]>>],
    [keywords |-> <<"creative types", "creative type list", "platform creative type", "rtb creative type">>,
     url |-> "/guidelines/creative-api/#get-creative-types-list", title |-> "Get Creative Types List",
     related |-> <<[title |-> "Get Creative Types List", path |-> "/guidelines/creative-api/#get-creative-types-list"], [title |-> "Add New Creative", path |-> "/guidelines/creative-api/#add-new-creative"]>>],
    [keywords |-> <<"creative status list", "creative statuses", "status id">>,
     url |-> "/guidelines/creative-api/#get-creative-status-list", title |-> "Get Creative Status List",
     related |-> <<[title |-> "Get Creative Status List", path |-> "/guidelines/creative-api/#get-creative-status-list"], [title |-> "Update Creative Status", path |-> "/guidelines/creative-api/#update-creative-status"]>>],
    [keywords |-> <<"creative", "upload creative", "ad creative", "banner", "video ad", "native ad", "html5", "vast", "daast", "audio ad">>,
     url |-> "/quickstart-guides/upload-a-creative-quickstart/", title |-> "Upload a Creative",
     related |-> <<[title |-> "Creative API", path |-> "/guidelines/creative-api/"], [title |-> "Asset API", path |-> "/guidelines/asset-api/"]>>],
    [keywords |-> <<"inventory quickstart", "inventory tutorial", "inventory start">>,
     url |-> "/quickstart-guides/inventory-quickstart/", title |-> "Inventory Quickstart",
     related |-> <<[title |-> "Inventory API", path |-> "/guidelines/inventory-api/"], [title |-> "Create a Deal", path |-> "/tutorials/deal-guide/"]>>],
    [keywords |-> <<"deal", "deals", "pmp", "pmp deal", "private marketplace", "create deal">>,
     url |-> "/tutorials/deal-guide/", title |-> "Create a Deal",
     related |-> <<[title |-> "Inventory API", path |-> "/guidelines/inventory-api/"], [title |-> "Optimize Your Inventory", path |-> "/tutorials/optimize-your-inventory/"]>>],
    [keywords |-> <<"optimize inventory", "inventory optimization">>,
     url |-> "/tutorials/optimize-your-inventory/", title |-> "Optimize Your Inventory",
     related |-> <<[title |-> "Inventory API", path |-> "/guidelines/inventory-api/"], [title |-> "Create a Deal", path |-> "/tutorials/deal-guide/"]>>],
    [keywords |-> <<"list inventories", "inventory list", "get inventories", "search inventories", "filter inventories">>,
     url |-> "/guidelines/inventory-api/#get-list-of-inventories", title |-> "Get List of Inventories",
     related |-> <<[title |-> "Get Inventories Count", path |-> "/guidelines/inventory-api/#get-inventories-count"], [title |-> "Get Inventory Distribution", path |-> "/guidelines/inventory-api/#get-inventory-distribution"]>>],
    [keywords |-> <<"inventory distribution", "inventory breakdown", "inventory by country", "inventory by device">>,
     url |-> "/guidelines/inventory-api/#get-inventory-distribution", title |-> "Get Inventory Distribution",
     related |-> <<[title |-> "Get List of Inventories", path |-> "/guidelines/inventory-api/#get-list-of-inventories"]>>],
    [keywords |-> <<"inventory count", "count inventories", "how many inventories", "total inventories">>,
     url |-> "/guidelines/inventory-api/#get-inventories-count", title |-> "Get Inventories Count",
     related |-> <<[title |-> "Get List of Inventories", path |-> "/guidelines/inventory-api/#get-list-of-inventories"]>>],
    [keywords |-> <<"inventory group types", "inventory types", "open exchange", "contextual inventory">>,
     url |-> "/guidelines/inventory-api/#get-inventory-group-types", title |-> "Get Inventory Group Types",
     related |-> <<[title |-> "Get List of Inventory Groups", path |-> "/guidelines/inventory-api/#get-list-of-inventory-groups"]>>],
    [keywords |-> <<"blocked inventories", "blocklist", "block list", "blocked inventory list">>,
     url |-> "/guidelines/inventory-api/#get-list-of-blocked-inventories", title |-> "Get List of Blocked Inventories",
     related |-> <<[title |-> "Block Inventories", path |-> "/guidelines/inventory-api/#block-inventories"]>>],
    [keywords |-> <<"inventory group", "inventory groups", "list inventory groups", "get inventory groups">>,
     url |-> "/guidelines/inventory-api/#get-list-of-inventory-groups", title |-> "Get List of Inventory Groups",
     related |-> <<[title |-> "Create Inventory Group", path |-> "/guidelines/inventory-api/#create-inventory-group"]>>],
    [keywords |-> <<"create inventory group", "new inventory group", "add inventory group">>,
     url |-> "/guidelines/inventory-api/#create-inventory-group", title |-> "Create Inventory Group",
     related |-> <<[title |-> "Update Inventory Group", path |-> "/guidelines/inventory-api/#update-inventory-group"]>>],
    [keywords |-> <<"update inventory group", "edit inventory group", "modify inventory group">>,
     url |-> "/guidelines/inventory-api/#update-inventory-group", title |-> "Update Inventory Group",
     related |-> <<[title |-> "Delete Inventory Group", path |-> "/guidelines/inventory-api/#delete-inventory-group"]>>],
    [keywords |-> <<"delete inventory group", "remove inventory group">>,
     url |-> "/guidelines/inventory-api/#delete-inventory-group", title |-> "Delete Inventory Group",
     related |-> <<[title |-> "Get List of Inventory Groups", path |-> "/guidelines/inventory-api/#get-list-of-inventory-groups"]>>],
    [keywords |-> <<"pg deal", "programmatic guaranteed deal", "pmp deals", "private marketplace deal">>,
     url |-> "/guidelines/inventory-api/#pmp-deals", title |-> "PMP Deals",
     related |-> <<[title |-> "Create a Deal", path |-> "/tutorials/deal-guide/"], [title |-> "Get List of PMP Deals", path |-> "/guidelines/inventory-api/#get-list-of-pmp-deals"]>>],
    [keywords |-> <<"list pmp deals", "get pmp deals", "pmp deal list">>,
     url |-> "/guidelines/inventory-api/#get-list-of-pmp-deals", title |-> "Get List of PMP Deals",
     related |-> <<[title |-> "Create PMP Deal", path |-> "/guidelines/inventory-api/#create-pmp-deal"]>>],
    [keywords |-> <<"create pmp deal", "add pmp deal", "new pmp deal">>,
     url |-> "/guidelines/inventory-api/#create-pmp-deal", title |-> "Create PMP Deal",
     related |-> <<[title |-> "Update PMP Deal", path |-> "/guidelines/inventory-api/#update-pmp-deal"]>>],
    [keywords |-> <<"block inventory", "block inventories", "add to blocklist">>,
     url |-> "/guidelines/inventory-api/#block-inventories", title |-> "Block Inventories",
     related |-> <<[title |-> "Unblock Inventories", path |-> "/guidelines/inventory-api/#unblock-inventories"]>>],
    [keywords |-> <<"unblock inventory", "unblock inventories", "remove from blocklist">>,
     url |-> "/guidelines/inventory-api/#unblock-inventories", title |-> "Unblock Inventories",
     related |-> <<[title |-> "Get List of Blocked Inventories", path |-> "/guidelines/inventory-api/#get-list-of-blocked-inventories"]>>],
    [keywords |-> <<"inventory", "inventory targeting", "inventory api">>,
     url |-> "/guidelines/inventory-api/", title |-> "Inventory API",
     related |-> <<[title |-> "Create a Deal", path |-> "/tutorials/deal-guide/"], [title |-> "Optimize Your Inventory", path |-> "/tutorials/optimize-your-inventory/"]>>],
    [keywords |-> <<"report quickstart", "reporting quickstart", "report tutorial">>,
     url |-> "/quickstart-guides/reporting-api-quickstart-guide/", title |-> "Reporting API Quickstart",
     related |-> <<[title |-> "Reports API", path |-> "/guidelines/reports-api/"], [title |-> "Schedule a Report", path |-> "/quickstart-guides/schedule-report-api-quickstart-guide/"]>>],
    [keywords |-> <<"schedule report", "schedule report quickstart", "scheduled report tutorial">>,
     url |-> "/quickstart-guides/schedule-report-api-quickstart-guide/", title |-> "Schedule Report Quickstart",
     related |-> <<[title |-> "Reports API", path |-> "/guidelines/reports-api/"], [title |-> "Run a Report", path |-> "/quickstart-guides/reporting-api-quickstart-guide/"]>>],
    [keywords |-> <<"list reports", "get reports", "report list", "all reports">>,
     url |-> "/guidelines/reports-api/#get-a-list-of-reports", title |-> "Get a List of Reports",
     related |-> <<[title |-> "Get Report by ID", path |-> "/guidelines/reports-api/#get-report-by-id"], [title |-> "Create Report", path |-> "/guidelines/reports-api/#create-report"]>>],
    [keywords |-> <<"get report by id", "report by id", "report details", "specific report">>,
     url |-> "/guidelines/reports-api/#get-report-by-id", title |-> "Get Report by ID",
     related |-> <<[title |-> "Get a List of Reports", path |-> "/guidelines/reports-api/#get-a-list-of-reports"]>>],
    [keywords |-> <<"create report", "new report", "add report", "generate report">>,
     url |-> "/guidelines/reports-api/#create-report", title |-> "Create Report",
     related |-> <<[title |-> "Execute Report", path |-> "/guidelines/reports-api/#execute-report"], [title |-> "Update Report", path |-> "/guidelines/reports-api/#update-report"]>>],
    [keywords |-> <<"update report", "edit report", "modify report">>,
     url |-> "/guidelines/reports-api/#update-report", title |-> "Update Report",
     related |-> <<[title |-> "Create Report", path |-> "/guidelines/reports-api/#create-report"], [title |-> "Delete Report", path |-> "/guidelines/reports-api/#delete-report"]>>],
    [keywords |-> <<"delete report", "remove report">>,
     url |-> "/guidelines/reports-api/#delete-report", title |-> "Delete Report",
     related |-> <<[title |-> "Get a List of Reports", path |-> "/guidelines/reports-api/#get-a-list-of-reports"]>>],
    [keywords |-> <<"execute report", "run report", "trigger report">>,
     url |-> "/guidelines/reports-api/#execute-report", title |-> "Execute Report",
     related |-> <<[title |-> "Create Report", path |-> "/guidelines/reports-api/#create-report"], [title |-> "Schedule Report", path |-> "/guidelines/reports-api/#schedule-report"]>>],
    [keywords |-> <<"schedule report", "report schedule", "scheduled report", "recurring report", "email report">>,
     url |-> "/guidelines/reports-api/#schedule-report", title |-> "Schedule Report",
     related |-> <<[title |-> "Get Report Delivery Frequency Types", path |-> "/guidelines/reports-api/#get-report-delivery-frequency-types"], [title |-> "Schedule Report Quickstart", path |-> "/quickstart-guides/schedule-report-api-quickstart-guide/"]>>],
    [keywords |-> <<"report delivery frequency", "delivery frequency types", "report frequency">>,
     url |-> "/guidelines/reports-api/#get-report-delivery-frequency-types", title |-> "Get Report Delivery Frequency Types",
     related |-> <<[title |-> "Schedule Report", path |-> "/guidelines/reports-api/#schedule-report"]>>],
    [keywords |-> <<"report file types", "report format", "csv", "xlsx", "report export format">>,
     url |-> "/guidelines/reports-api/#get-report-file-types", title |-> "Get Report File Types",
     related |-> <<[title |-> "Create Report", path |-> "/guidelines/reports-api/#create-report"]>>],
    [keywords |-> <<"report request types", "report type">>,
     url |-> "/guidelines/reports-api/#get-report-request-types", title |-> "Get Report Request Types",
     related |-> <<[title |-> "Create Report", path |-> "/guidelines/reports-api/#create-report"]>>],
    [keywords |-> <<"report dimensions", "report metrics", "dimensions and metrics", "available metrics", "available dimensions">>,
     url |-> "/guidelines/reports-api/#get-dimensions-and-metrics-details", title |-> "Get Dimensions and Metrics Details",
     related |-> <<[title |-> "Create Report", path |-> "/guidelines/reports-api/#create-report"], [title |-> "Dashboard Dimensions", path |-> "/guidelines/dashboard-api/#get-dimensions-and-metrics-for-dashboard"]>>],
    [keywords |-> <<"report", "reporting", "analytics", "metrics", "performance", "stats", "reports api">>,
     url |-> "/quickstart-guides/reporting-api-quickstart-guide/", title |-> "Run a Report",
     related |-> <<[title |-> "Reports API", path |-> "/guidelines/reports-api/"], [title |-> "Schedule a Report", path |-> "/quickstart-guides/schedule-report-api-quickstart-guide/"]>>],
    [keywords |-> <<"contextual", "contextual audience", "contextual targeting", "keyword targeting", "url targeting">>,
     url |-> "/quickstart-guides/contextual-audience-quickstart/", title |-> "Create a Contextual Audience",
     related |-> <<[title |-> "Audience API", path |-> "/guidelines/audience-api/"], [title |-> "Upload a Matched Audience", path |-> "/tutorials/upload-a-matched-audience/"]>>],
    [keywords |-> <<"matched audience", "upload audience", "first party data", "first party audience", "customer list", "csv audience">>,
     url |-> "/tutorials/upload-a-matched-audience/", title |-> "Upload a Matched Audience",
     related |-> <<[title |-> "Audience API", path |-> "/guidelines/audience-api/"], [title |-> "Contextual Audience", path |-> "/quickstart-guides/contextual-audience-quickstart/"]>>],
    [keywords |-> <<"audience list", "list audiences", "get audiences", "audience details", "filter audiences", "search audiences">>,
     url |-> "/guidelines/audience-api/#audience-details-list", title |-> "Audience Details List",
     related |-> <<[title |-> "Basic Audience Details", path |-> "/guidelines/audience-api/#basic-audience-details"], [title |-> "Audience Type List", path |-> "/guidelines/audience-api/#audience-type-list"]>>],
    [keywords |-> <<"basic audience details", "audience basic list", "simple audience list">>,
     url |-> "/guidelines/audience-api/#basic-audience-details", title |-> "Basic Audience Details",
     related |-> <<[title |-> "Audience Details List", path |-> "/guidelines/audience-api/#audience-details-list"]>>],
    [keywords |-> <<"audience count status", "count audiences", "audience status count", "how many audiences">>,
     url |-> "/guidelines/audience-api/#audience-count-by-status", title |-> "Audience Count by Status",
     related |-> <<[title |-> "Audience Status List", path |-> "/guidelines/audience-api/#audience-status-list"]>>],
    [keywords |-> <<"audience count type", "count audience types", "audience type count">>,
     url |-> "/guidelines/audience-api/#audience-count-by-type", title |-> "Audience Count by Type",
     related |-> <<[title |-> "Audience Type List", path |-> "/guidelines/audience-api/#audience-type-list"]>>],
    [keywords |-> <<"update audience name", "rename audience", "change audience name", "edit audience name">>,
     url |-> "/guidelines/audience-api/#update-audience-name", title |-> "Update Audience Name",
     related |-> <<[title |-> "Audience Details List", path |-> "/guidelines/audience-api/#audience-details-list"]>>],
    [keywords |-> <<"regenerate audience", "failed audience", "retry audience", "reprocess audience">>,
     url |-> "/guidelines/audience-api/#regenerate-audience", title |-> "Regenerate Audience",
     related |-> <<[title |-> "Audience Status List", path |-> "/guidelines/audience-api/#audience-status-list"]>>],
    [keywords |-> <<"audience insights", "get audience insights", "audience analytics", "audience breakdown">>,
     url |-> "/guidelines/audience-api/#get-audience-insights", title |-> "Get Audience Insights",
     related |-> <<[title |-> "Create Audience Insights", path |-> "/guidelines/audience-api/#create-audience-insights"], [title |-> "Insights API", path |-> "/guidelines/insights-api/"]>>],
    [keywords |-> <<"create audience insights", "generate audience insights", "add audience insights">>,
     url |-> "/guidelines/audience-api/#create-audience-insights", title |-> "Create Audience Insights",
     related |-> <<[title |-> "Get Audience Insights", path |-> "/guidelines/audience-api/#get-audience-insights"], [title |-> "Insights API", path |-> "/guidelines/insights-api/"]>>],
    [keywords |-> <<"attach data partner", "data partner audience", "add data partner", "audience data partner">>,
     url |-> "/guidelines/audience-api/#attach-data-partner", title |-> "Attach Data Partner",
     related |-> <<[title |-> "Data Partners List", path |-> "/guidelines/audience-api/#data-partners-list-for-matched-audience"]>>],
    [keywords |-> <<"delete audience", "remove audience", "delete audiences">>,
     url |-> "/guidelines/audience-api/#delete-audience", title |-> "Delete Audience",
     related |-> <<[title |-> "Audience Details List", path |-> "/guidelines/audience-api/#audience-details-list"]>>],
    [keywords |-> <<"create matched audience", "new matched audience", "upload matched audience", "matched audience file", "multipart audience">>,
     url |-> "/guidelines/audience-api/#create-matched-audience", title |-> "Create Matched Audience",
     related |-> <<[title |-> "Upload a Matched Audience Tutorial", path |-> "/tutorials/upload-a-matched-audience/"], [title |-> "Data Formats List", path |-> "/guidelines/audience-api/#data-formats-list-for-matched-audience"]>>],
    [keywords |-> <<"update matched audience", "edit matched audience", "matched audience status", "matched audience data cost", "reject matched audience">>,
     url |-> "/guidelines/audience-api/#update-matched-audience", title |-> "Update Matched Audience",
     related |-> <<[title |-> "Matched Audience Details", path |-> "/guidelines/audience-api/#matched-audience-details"]>>],
    [keywords |-> <<"data partners", "matched audience partners", "data provider", "audience provider">>,
     url |-> "/guidelines/audience-api/#data-partners-list-for-matched-audience", title |-> "Data Partners List",
     related |-> <<[title |-> "Attach Data Partner", path |-> "/guidelines/audience-api/#attach-data-partner"]>>],
    [keywords |-> <<"data formats", "hashed data", "md5 hash", "sha1 hash", "sha256", "audience hash format">>,
     url |-> "/guidelines/audience-api/#data-formats-list-for-matched-audience", title |-> "Data Formats List",
     related |-> <<[title |-> "Create Matched Audience", path |-> "/guidelines/audience-api/#create-matched-audience"]>>],
    [keywords |-> <<"download matched audience", "audience file url", "download audience file", "s3 audience url">>,
     url |-> "/guidelines/audience-api/#download-matched-audience-file", title |-> "Download Matched Audience File",
     related |-> <<[title |-> "Matched Audience Details", path |-> "/guidelines/audience-api/#matched-audience-details"]>>],
    [keywords |-> <<"create segmented audience", "segmented audience", "segment equation", "audience segments", "combine segments">>,
     url |-> "/guidelines/audience-api/#create-segmented-audience", title |-> "Create Segmented Audience",
     related |-> <<[title |-> "Master API", path |-> "/guidelines/master-api/"], [title |-> "Update Segmented Audience", path |-> "/guidelines/audience-api/#update-segmented-audience"]>>],
    [keywords |-> <<"update segmented audience", "edit segmented audience", "modify segment equation", "change audience segments">>,
     url |-> "/guidelines/audience-api/#update-segmented-audience", title |-> "Update Segmented Audience",
     related |-> <<[title |-> "Create Segmented Audience", path |-> "/guidelines/audience-api/#create-segmented-audience"]>>],
    [keywords |-> <<"create retargeted audience", "retargeted audience", "retargeting tag", "tracking tag", "pixel tag", "website retargeting">>,
     url |-> "/guidelines/audience-api/#create-retargeted-audience", title |-> "Create Retargeted Audience",
     related |-> <<[title |-> "Update Retargeted Audience", path |-> "/guidelines/audience-api/#update-retargeted-audience"], [title |-> "Retargeted Audience Email Notification", path |-> "/guidelines/audience-api/#retargeted-audience-email-notification"]>>],
    [keywords |-> <<"update retargeted audience", "edit retargeted audience", "modify retargeting", "change retarget settings">>,
     url |-> "/guidelines/audience-api/#update-retargeted-audience", title |-> "Update Retargeted Audience",
     related |-> <<[title |-> "Create Retargeted Audience", path |-> "/guidelines/audience-api/#create-retargeted-audience"]>>],
    [keywords |-> <<"retarget email", "pixel code email", "send pixel code", "email retarget pixel">>,
     url |-> "/guidelines/audience-api/#retargeted-audience-email-notification", title |-> "Retargeted Audience Email Notification",
     related |-> <<[title |-> "Create Retargeted Audience", path |-> "/guidelines/audience-api/#create-retargeted-audience"]>>],
    [keywords |-> <<"geofarmed audience", "geofarm", "geo-farmed", "geographical audience", "location audience", "geofence", "custom area audience", "radius targeting">>,
     url |-> "/guidelines/audience-api/#create-geofarmed-audience", title |-> "Create Geofarmed Audience",
     related |-> <<[title |-> "Geofarmed Audience Details", path |-> "/guidelines/audience-api/#geofarmed-audience-details"], [title |-> "Frequency Type List", path |-> "/guidelines/audience-api/#frequency-type-list"]>>],
    [keywords |-> <<"create contextual audience", "contextual keywords", "contextual urls", "content targeting", "keyword audience">>,
     url |-> "/guidelines/audience-api/#create-contextual-audience", title |-> "Create Contextual Audience",
     related |-> <<[title |-> "Contextual Audience Quickstart", path |-> "/quickstart-guides/contextual-audience-quickstart/"], [title |-> "Validate URL", path |-> "/guidelines/audience-api/#validate-url-for-contextual-audience"]>>],
    [keywords |-> <<"validate contextual url", "validate url", "programmatic url", "check url targeting">>,
     url |-> "/guidelines/audience-api/#validate-url-for-contextual-audience", title |-> "Validate URL for Contextual Audience",
     related |-> <<[title |-> "Create Contextual Audience", path |-> "/guidelines/audience-api/#create-contextual-audience"]>>],
    [keywords |-> <<"lookalike audience", "similar audience", "audience expansion", "create lookalike", "lookalike details", "audience modeling">>,
     url |-> "/guidelines/audience-api/#create-lookalike-audience", title |-> "Create Lookalike Audience",
     related |-> <<[title |-> "Get Lookalike Audience Details", path |-> "/guidelines/audience-api/#get-lookalike-audience-details"], [title |-> "Audience Details List", path |-> "/guidelines/audience-api/#audience-details-list"]>>],
    [keywords |-> <<"campaign audience", "retarget campaign", "campaign retargeting", "create campaign audience">>,
     url |-> "/guidelines/audience-api/#create-campaign-audience", title |-> "Create Campaign Audience",
     related |-> <<[title |-> "Campaign Audience Details", path |-> "/guidelines/audience-api/#campaign-audience-details"], [title |-> "Campaign Audience History", path |-> "/guidelines/audience-api/#get-campaign-audience-history"]>>],
    [keywords |-> <<"campaign audience history", "audience history", "historical audience", "past campaign audiences">>,
     url |-> "/guidelines/audience-api/#get-campaign-audience-history", title |-> "Get Campaign Audience History",
     related |-> <<[title |-> "Campaign Audience Details", path |-> "/guidelines/audience-api/#campaign-audience-details"]>>],
    [keywords |-> <<"pre-bid audience", "prebid audience", "pre bid segment", "prebid segment", "third party audience">>,
     url |-> "/guidelines/audience-api/#pre-bid-audiences", title |-> "Pre-bid Audiences",
     related |-> <<[title |-> "Audience Type List", path |-> "/guidelines/audience-api/#audience-type-list"]>>],
    [keywords |-> <<"audience types", "audience type list", "audience type id", "type of audience">>,
     url |-> "/guidelines/audience-api/#audience-type-list", title |-> "Audience Type List",
     related |-> <<[title |-> "Audience Subtype List", path |-> "/guidelines/audience-api/#audience-subtype-list"]>>],
    [keywords |-> <<"audience subtypes", "audience subtype list", "audience subtype id", "hcp audience", "patient audience", "nurse audience">>,
     url |-> "/guidelines/audience-api/#audience-subtype-list", title |-> "Audience Subtype List",
     related |-> <<[title |-> "Audience Type List", path |-> "/guidelines/audience-api/#audience-type-list"]>>],
    [keywords |-> <<"audience status", "audience status list", "ready audience", "pending audience", "failed audience status", "rejected audience">>,
     url |-> "/guidelines/audience-api/#audience-status-list", title |-> "Audience Status List",
     related |-> <<[title |-> "Audience Count by Status", path |-> "/guidelines/audience-api/#audience-count-by-status"]>>],
    [keywords |-> <<"frequency type", "geofarmed frequency", "visit frequency", "weekly frequency", "monthly frequency">>,
     url |-> "/guidelines/audience-api/#frequency-type-list", title |-> "Frequency Type List",
     related |-> <<[title |-> "Create Geofarmed Audience", path |-> "/guidelines/audience-api/#create-geofarmed-audience"]>>],
    [keywords |-> <<"reach range", "audience reach", "segment reach", "filter by reach">>,
     url |-> "/guidelines/audience-api/#reach-range-list-for-audience-segment", title |-> "Reach Range List",
     related |-> <<[title |-> "Price Range List", path |-> "/guidelines/audience-api/#price-range-list-for-audience-segment"]>>],
    [keywords |-> <<"price range", "cpm range", "segment price", "filter by cpm", "audience cost">>,
     url |-> "/guidelines/audience-api/#price-range-list-for-audience-segment", title |-> "Price Range List",
     related |-> <<[title |-> "Reach Range List", path |-> "/guidelines/audience-api/#reach-range-list-for-audience-segment"]>>],
    [keywords |-> <<"audience", "targeting", "audience api">>,
     url |-> "/guidelines/audience-api/", title |-> "Audience API",
     related |-> <<[title |-> "Upload a Matched Audience", path |-> "/tutorials/upload-a-matched-audience/"], [title |-> "Contextual Audience Quickstart", path |-> "/quickstart-guides/contextual-audience-quickstart/"]>>],
    [keywords |-> <<"bid model quickstart", "bid model tutorial", "bid model start">>,
     url |-> "/quickstart-guides/bid-model-quickstart/", title |-> "Bid Model Quickstart",
     related |-> <<[title |-> "Bid Model API", path |-> "/guidelines/bid-model-api/"], [title |-> "Create a Bid Model", path |-> "/tutorials/create-a-bid-model/"]>>],
    [keywords |-> <<"create bid model", "new bid model", "bid model tutorial", "make bid model">>,
     url |-> "/tutorials/create-a-bid-model/", title |-> "Create a Bid Model",
     related |-> <<[title |-> "Bid Model API", path |-> "/guidelines/bid-model-api/"], [title |-> "Campaign API", path |-> "/guidelines/campaign-api/"]>>],
    [keywords |-> <<"bid model bundles", "list bid model", "get bid models", "bid bundles">>,
     url |-> "/guidelines/bid-model-api/#get-list-of-bid-model-bundles", title |-> "Get List of Bid Model Bundles",
     related |-> <<[title |-> "Add Bid Model Bundles", path |-> "/guidelines/bid-model-api/#add-bid-model-bundles"]>>],
    [keywords |-> <<"add bid model", "create bid model bundle", "new bid model bundle">>,
     url |-> "/guidelines/bid-model-api/#add-bid-model-bundles", title |-> "Add Bid Model Bundles",
     related |-> <<[title |-> "Update Bid Model", path |-> "/guidelines/bid-model-api/#manage-bid-modeling"]>>],
    [keywords |-> <<"update bid model", "edit bid model", "modify bid model", "manage bid model", "create bid model">>,
     url |-> "/guidelines/bid-model-api/#manage-bid-modeling", title |-> "Update Bid Model",
     related |-> <<[title |-> "Get Modeled Entities", path |-> "/guidelines/bid-model-api/#get-modeled-entities"]>>],
    [keywords |-> <<"delete bid model", "remove bid model">>,
     url |-> "/guidelines/bid-model-api/#delete-bid-model", title |-> "Delete Bid Model",
     related |-> <<[title |-> "Get List of Bid Model Bundles", path |-> "/guidelines/bid-model-api/#get-list-of-bid-model-bundles"]>>],
    [keywords |-> <<"modeled entities", "bid model entities", "entity statistics">>,
     url |-> "/guidelines/bid-model-api/#get-modeled-entities", title |-> "Get Modeled Entities",
     related |-> <<[title |-> "Campaign Dimension Statistics", path |-> "/guidelines/bid-model-api/#get-campaign-dimension-statistics"]>>],
    [keywords |-> <<"campaign dimension statistics", "dimension stats", "bid model statistics">>,
     url |-> "/guidelines/bid-model-api/#get-campaign-dimension-statistics", title |-> "Get Campaign Dimension Statistics",
     related |-> <<[title |-> "Dimension Specific Spending", path |-> "/guidelines/bid-model-api/#get-dimension-specific-spending"]>>],
    [keywords |-> <<"dimension spending", "dimension specific spending", "bid model spending">>,
     url |-> "/guidelines/bid-model-api/#get-dimension-specific-spending", title |-> "Get Dimension Specific Spending",
     related |-> <<[title |-> "Campaign Dimension Statistics", path |-> "/guidelines/bid-model-api/#get-campaign-dimension-statistics"]>>],
    [keywords |-> <<"bid", "bidding", "bid model", "cpm", "cpc", "optimization", "bid model api">>,
     url |-> "/guidelines/bid-model-api/", title |-> "Bid Model API",
     related |-> <<[title |-> "Create a Bid Model", path |-> "/tutorials/create-a-bid-model/"], [title |-> "Campaign API", path |-> "/guidelines/campaign-api/"]>>],
    [keywords |-> <<"conversion quickstart", "conversion tutorial", "conversion start">>,
     url |-> "/quickstart-guides/conversion-quickstart/", title |-> "Conversion Quickstart",
     related |-> <<[title |-> "Conversion API", path |-> "/guidelines/conversion-api/"], [title |-> "Create a Conversion", path |-> "/tutorials/create-a-conversion/"]>>],
    [keywords |-> <<"create conversion tutorial", "conversion tutorial", "make conversion">>,
     url |-> "/tutorials/create-a-conversion/", title |-> "Create a Conversion",
     related |-> <<[title |-> "Conversion API", path |-> "/guidelines/conversion-api/"]>>],
    [keywords |-> <<"conversion details", "get conversion", "conversion by id">>,
     url |-> "/guidelines/conversion-api/#get-conversion-details-by-id", title |-> "Get Conversion Details by ID",
     related |-> <<[title |-> "Get List of Conversions", path |-> "/guidelines/conversion-api/#get-list-of-conversions"]>>],
    [keywords |-> <<"list conversions", "get conversions", "all conversions", "conversion list">>,
     url |-> "/guidelines/conversion-api/#get-list-of-conversions", title |-> "Get List of Conversions",
     related |-> <<[title |-> "Create Pixel Conversion", path |-> "/guidelines/conversion-api/#create-pixel-conversion"]>>],
    [keywords |-> <<"conversion types", "list conversion types", "available conversion types">>,
     url |-> "/guidelines/conversion-api/#get-list-of-conversion-types", title |-> "Get List of Conversion Types",
     related |-> <<[title |-> "Get List of Conversions", path |-> "/guidelines/conversion-api/#get-list-of-conversions"]>>],
    [keywords |-> <<"conversion status", "conversion status list", "available conversion status">>,
     url |-> "/guidelines/conversion-api/#get-list-of-conversion-status", title |-> "Get List of Conversion Status",
     related |-> <<[title |-> "Get List of Conversions", path |-> "/guidelines/conversion-api/#get-list-of-conversions"]>>],
    [keywords |-> <<"create pixel conversion", "pixel conversion", "new pixel", "add pixel">>,
     url |-> "/guidelines/conversion-api/#create-pixel-conversion", title |-> "Create Pixel Conversion",
     related |-> <<[title |-> "Create Postback Conversion", path |-> "/guidelines/conversion-api/#create-postback-conversion"], [title |-> "Update Conversion", path |-> "/guidelines/conversion-api/#update-conversion"]>>],
    [keywords |-> <<"create postback", "postback conversion", "new postback", "s2s conversion">>,
     url |-> "/guidelines/conversion-api/#create-postback-conversion", title |-> "Create Postback Conversion",
     related |-> <<[title |-> "Create Pixel Conversion", path |-> "/guidelines/conversion-api/#create-pixel-conversion"]>>],
    [keywords |-> <<"update conversion", "edit conversion", "modify conversion">>,
     url |-> "/guidelines/conversion-api/#update-conversion", title |-> "Update Conversion",
     related |-> <<[title |-> "Delete Conversion", path |-> "/guidelines/conversion-api/#delete-conversion"]>>],
    [keywords |-> <<"delete conversion", "remove conversion">>,
     url |-> "/guidelines/conversion-api/#delete-conversion", title |-> "Delete Conversion",
     related |-> <<[title |-> "Get List of Conversions", path |-> "/guidelines/conversion-api/#get-list-of-conversions"]>>],
    [keywords |-> <<"conversion", "tracking", "pixel", "attribution", "postback", "conversion api">>,
     url |-> "/guidelines/conversion-api/", title |-> "Conversion API",
     related |-> <<[title |-> "Create a Conversion", path |-> "/tutorials/create-a-conversion/"]>>],
    [keywords |-> <<"insights quickstart", "insights tutorial", "insights start">>,
     url |-> "/quickstart-guides/insights-quickstart/", title |-> "Insights Quickstart",
     related |-> <<[title |-> "Insights API", path |-> "/guidelines/insights-api/"], [title |-> "Create an Insights Report", path |-> "/tutorials/create-an-insights-report/"]>>],
    [keywords |-> <<"create insights report", "insights report tutorial", "make insights report">>,
     url |-> "/tutorials/create-an-insights-report/", title |-> "Create an Insights Report",
     related |-> <<[title |-> "Insights API", path |-> "/guidelines/insights-api/"]>>],
    [keywords |-> <<"list insights", "get insights", "insights list", "all insights">>,
     url |-> "/guidelines/insights-api/#get-a-list-of-insights", title |-> "Get a List of Insights",
     related |-> <<[title |-> "Get Campaign Bidding Insights", path |-> "/guidelines/insights-api/#get-campaign-bidding-insights"]>>],
    [keywords |-> <<"campaign bidding insights", "bidding insights", "campaign insights">>,
     url |-> "/guidelines/insights-api/#get-campaign-bidding-insights", title |-> "Get Campaign Bidding Insights",
     related |-> <<[title |-> "Get a List of Insights", path |-> "/guidelines/insights-api/#get-a-list-of-insights"]>>],
    [keywords |-> <<"insights types", "list insights types", "available insights types">>,
     url |-> "/guidelines/insights-api/#get-insights-types", title |-> "Get Insights Types",
     related |-> <<[title |-> "Get Insights Status", path |-> "/guidelines/insights-api/#get-insights-status"]>>],
    [keywords |-> <<"insights status", "insights status list">>,
     url |-> "/guidelines/insights-api/#get-insights-status", title |-> "Get Insights Status",
     related |-> <<[title |-> "Get Insights Types", path |-> "/guidelines/insights-api/#get-insights-types"]>>],
    [keywords |-> <<"vld report", "voter level data", "vld insights">>,
     url |-> "/guidelines/insights-api/#vld-reports", title |-> "VLD Reports",
     related |-> <<[title |-> "Political Vertical", path |-> "/political-vertical/"], [title |-> "PLD Reports", path |-> "/guidelines/insights-api/#pld-reports"]>>],
    [keywords |-> <<"pld report", "provider level data", "pld insights">>,
     url |-> "/guidelines/insights-api/#pld-reports", title |-> "PLD Reports",
     related |-> <<[title |-> "Healthcare Vertical", path |-> "/healthcare-vertical/"], [title |-> "VLD Reports", path |-> "/guidelines/insights-api/#vld-reports"]>>],
    [keywords |-> <<"sls report", "sls insights", "sales insights">>,
     url |-> "/guidelines/insights-api/#sls-reports", title |-> "SLS Reports",
     related |-> <<[title |-> "Get a List of Insights", path |-> "/guidelines/insights-api/#get-a-list-of-insights"]>>],
    [keywords |-> <<"insights", "audience insights", "insights api">>,
     url |-> "/guidelines/insights-api/", title |-> "Insights API",
     related |-> <<[title |-> "Create an Insights Report", path |-> "/tutorials/create-an-insights-report/"]>>],
    [keywords |-> <<"proposal details", "get proposal", "proposal by id">>,
     url |-> "/guidelines/planner-api/#get-proposal-details-by-id", title |-> "Get Proposal Details by ID",
     related |-> <<[title |-> "Get List of Proposals", path |-> "/guidelines/planner-api/#get-list-of-proposals"]>>],
    [keywords |-> <<"list proposals", "get proposals", "all proposals", "proposal list">>,
     url |-> "/guidelines/planner-api/#get-list-of-proposals", title |-> "Get List of Proposals",
     related |-> <<[title |-> "Create Proposal", path |-> "/guidelines/planner-api/#create-proposal"]>>],
    [keywords |-> <<"create proposal", "new proposal", "add proposal">>,
     url |-> "/guidelines/planner-api/#create-proposal", title |-> "Create Proposal",
     related |-> <<[title |-> "Update Proposal", path |-> "/guidelines/planner-api/#update-proposal"], [title |-> "Validate Proposal", path |-> "/guidelines/planner-api/#validate-proposal"]>>],
    [keywords |-> <<"update proposal", "edit proposal", "modify proposal">>,
     url |-> "/guidelines/planner-api/#update-proposal", title |-> "Update Proposal",
     related |-> <<[title |-> "Delete Proposal", path |-> "/guidelines/planner-api/#delete-proposal"]>>],
    [keywords |-> <<"delete proposal", "remove proposal">>,
     url |-> "/guidelines/planner-api/#delete-proposal", title |-> "Delete Proposal",
     related |-> <<[title |-> "Get List of Proposals", path |-> "/guidelines/planner-api/#get-list-of-proposals"]>>],
    [keywords |-> <<"validate proposal", "proposal validation", "check proposal">>,
     url |-> "/guidelines/planner-api/#validate-proposal", title |-> "Validate Proposal",
     related |-> <<[title |-> "Generate IO from Proposal", path |-> "/guidelines/planner-api/#generate-io-from-proposal"]>>],
    [keywords |-> <<"generate io", "io from proposal", "create io from proposal", "proposal to io">>,
     url |-> "/guidelines/planner-api/#generate-io-from-proposal", title |-> "Generate IO from Proposal",
     related |-> <<[title |-> "Validate Proposal", path |-> "/guidelines/planner-api/#validate-proposal"], [title |-> "Insertion Order Operations", path |-> "/guidelines/campaign-api/#insertion-order-operations"]>>],
    [keywords |-> <<"proposal status", "proposal status list">>,
     url |-> "/guidelines/planner-api/#proposal-status-list", title |-> "Proposal Status List",
     related |-> <<[title |-> "Get List of Proposals", path |-> "/guidelines/planner-api/#get-list-of-proposals"]>>],
    [keywords |-> <<"planner", "proposal", "plan campaign", "planner api">>,
     url |-> "/guidelines/planner-api/", title |-> "Planner API",
     related |-> <<[title |-> "Create a Campaign", path |-> "/quickstart-guides/create-a-campaign-quickstart/"]>>],
    [keywords |-> <<"pg campaign", "programmatic guaranteed campaign">>,
     url |-> "/tutorials/create-a-pg-campaign/", title |-> "Create a PG Campaign",
     related |-> <<[title |-> "Campaign API", path |-> "/guidelines/campaign-api/"], [title |-> "Create a Deal", path |-> "/tutorials/deal-guide/"]>>],
    [keywords |-> <<"customer", "invite customer", "sign up customer", "add customer", "new customer", "approve customer", "advertiser", "client onboarding">>,
     url |-> "/tutorials/customer-guide/", title |-> "Sign Up a New Customer",
     related |-> <<[title |-> "User API", path |-> "/guidelines/user-api/"], [title |-> "Workspace API", path |-> "/guidelines/workspace-api/"]>>],
    [keywords |-> <<"zip code", "zip codes", "zip segment", "postal code">>,
     url |-> "/guidelines/master-api/#get-zip-codes-and-state-ids", title |-> "Get Zip Codes and State IDs",
     related |-> <<[title |-> "Get State Segment", path |-> "/guidelines/master-api/#get-state-segment"]>>],
    [keywords |-> <<"state segment", "states", "state ids", "state targeting">>,
     url |-> "/guidelines/master-api/#get-state-segment", title |-> "Get State Segment",
     related |-> <<[title |-> "Get City Segment", path |-> "/guidelines/master-api/#get-city-segment"], [title |-> "Get County Segment", path |-> "/guidelines/master-api/#get-county-segment"]>>],
    [keywords |-> <<"country segment", "countries", "country ids", "country targeting">>,
     url |-> "/guidelines/master-api/#get-country-segment", title |-> "Get Country Segment",
     related |-> <<[title |-> "Get State Segment", path |-> "/guidelines/master-api/#get-state-segment"]>>],
    [keywords |-> <<"city segment", "cities", "city ids", "city targeting">>,
     url |-> "/guidelines/master-api/#get-city-segment", title |-> "Get City Segment",
     related |-> <<[title |-> "Get State Segment", path |-> "/guidelines/master-api/#get-state-segment"]>>],
    [keywords |-> <<"county segment", "counties", "county ids", "county targeting">>,
     url |-> "/guidelines/master-api/#get-county-segment", title |-> "Get County Segment",
     related |-> <<[title |-> "Get State Segment", path |-> "/guidelines/master-api/#get-state-segment"]>>],
    [keywords |-> <<"dma code", "dma segment", "dma targeting", "designated market area">>,
     url |-> "/guidelines/master-api/#get-dma-code-segment", title |-> "Get DMA Code Segment",
     related |-> <<[title |-> "Get State Segment", path |-> "/guidelines/master-api/#get-state-segment"]>>],
    [keywords |-> <<"congressional district", "congress district", "congressional targeting">>,
     url |-> "/guidelines/master-api/#get-congressional-district", title |-> "Get Congressional District",
     related |-> <<[title |-> "Get Senate District", path |-> "/guidelines/master-api/#get-senate-district"], [title |-> "Political Vertical", path |-> "/political-vertical/"]>>],
    [keywords |-> <<"senate district", "senate targeting">>,
     url |-> "/guidelines/master-api/#get-senate-district", title |-> "Get Senate District",
     related |-> <<[title |-> "Get House District", path |-> "/guidelines/master-api/#get-house-district"]>>],
    [keywords |-> <<"house district", "house targeting">>,
     url |-> "/guidelines/master-api/#get-house-district", title |-> "Get House District",
     related |-> <<[title |-> "Get Senate District", path |-> "/guidelines/master-api/#get-senate-district"]>>],
    [keywords |-> <<"age segment", "age group", "age targeting", "age range">>,
     url |-> "/guidelines/master-api/#get-age-segment", title |-> "Get Age Segment",
     related |-> <<[title |-> "Get Gender Segment", path |-> "/guidelines/master-api/#get-gender-segment"]>>],
    [keywords |-> <<"gender segment", "gender targeting", "male female">>,
     url |-> "/guidelines/master-api/#get-gender-segment", title |-> "Get Gender Segment",
     related |-> <<[title |-> "Get Age Segment", path |-> "/guidelines/master-api/#get-age-segment"]>>],
    [keywords |-> <<"language segment", "language targeting", "spoken language">>,
     url |-> "/guidelines/master-api/#get-language-segment", title |-> "Get Language Segment",
     related |-> <<[title |-> "Get Ethnicity Segment", path |-> "/guidelines/master-api/#get-ethnicity-segment"]>>],
    [keywords |-> <<"income segment", "income targeting", "household income">>,
     url |-> "/guidelines/master-api/#get-income-segment", title |-> "Get Income Segment",
     related |-> <<[title |-> "Get Age Segment", path |-> "/guidelines/master-api/#get-age-segment"]>>],
    [keywords |-> <<"ethnicity segment", "ethnicity targeting", "ethnic group">>,
     url |-> "/guidelines/master-api/#get-ethnicity-segment", title |-> "Get Ethnicity Segment",
     related |-> <<[title |-> "Get Language Segment", path |-> "/guidelines/master-api/#get-language-segment"]>>],
    [keywords |-> <<"exchange", "exchanges", "ssp", "supply source">>,
     url |-> "/guidelines/master-api/#get-exchanges", title |-> "Get Exchanges",
     related |-> <<[title |-> "Inventory API", path |-> "/guidelines/inventory-api/"]>>],
    [keywords |-> <<"traffic type", "traffic types", "app traffic", "web traffic">>,
     url |-> "/guidelines/master-api/#get-traffic-types", title |-> "Get Traffic Types",
     related |-> <<[title |-> "Get Device Type", path |-> "/guidelines/master-api/#get-device-type"]>>],
    [keywords |-> <<"device type", "device types", "mobile", "desktop", "tablet", "ctv">>,
     url |-> "/guidelines/master-api/#get-device-type", title |-> "Get Device Type",
     related |-> <<[title |-> "Get Traffic Types", path |-> "/guidelines/master-api/#get-traffic-types"]>>],
    [keywords |-> <<"creative sizes", "ad sizes", "banner size", "size dimensions", "iab sizes">>,
     url |-> "/guidelines/master-api/#get-creative-sizes", title |-> "Get Creative Sizes",
     related |-> <<[title |-> "Creative API", path |-> "/guidelines/creative-api/"]>>],
    [keywords |-> <<"master data", "segment ids", "master api", "targeting segments", "geography segment", "demographic segment">>,
     url |-> "/guidelines/master-api/", title |-> "Master API",
     related |-> <<[title |-> "Audience API", path |-> "/guidelines/audience-api/"], [title |-> "Create a Campaign", path |-> "/quickstart-guides/create-a-campaign-quickstart/"]>>],
    [keywords |-> <<"login", "user login", "sign in", "authenticate user", "get token">>,
     url |-> "/guidelines/user-api/#login", title |-> "User Login",
     related |-> <<[title |-> "Authentication Quickstart", path |-> "/quickstart-guides/authentication-quickstart-guide/"], [title |-> "Logout", path |-> "/guidelines/user-api/#logout"]>>],
    [keywords |-> <<"logout", "sign out", "end session", "invalidate token">>,
     url |-> "/guidelines/user-api/#logout", title |-> "User Logout",
     related |-> <<[title |-> "Login", path |-> "/guidelines/user-api/#login"]>>],
    [keywords |-> <<"refresh token", "token refresh", "renew token", "extend session">>,
     url |-> "/guidelines/user-api/#refresh-token", title |-> "Refresh Token",
     related |-> <<[title |-> "Login", path |-> "/guidelines/user-api/#login"]>>],
    [keywords |-> <<"list users", "get users", "user list", "all users">>,
     url |-> "/guidelines/user-api/#get-list-of-users", title |-> "Get List of Users",
     related |-> <<[title |-> "Get User Profile Details", path |-> "/guidelines/user-api/#get-user-profile-details"]>>],
    [keywords |-> <<"user profile", "get user profile", "profile details", "user details">>,
     url |-> "/guidelines/user-api/#get-user-profile-details", title |-> "Get User Profile Details",
     related |-> <<[title |-> "Update User Profile", path |-> "/guidelines/user-api/#update-user-profile"]>>],
    [keywords |-> <<"update user profile", "edit user profile", "modify user details", "change user info">>,
     url |-> "/guidelines/user-api/#update-user-profile", title |-> "Update User Profile",
     related |-> <<[title |-> "Get User Profile Details", path |-> "/guidelines/user-api/#get-user-profile-details"]>>],
    [keywords |-> <<"user config", "user configuration", "user settings", "config details">>,
     url |-> "/guidelines/user-api/#user-config-details", title |-> "User Config Details",
     related |-> <<[title |-> "Get User Profile Details", path |-> "/guidelines/user-api/#get-user-profile-details"]>>],
    [keywords |-> <<"invite user", "user invitation", "send invitation", "invite email">>,
     url |-> "/guidelines/user-api/#send-user-invitation", title |-> "Send User Invitation",
     related |-> <<[title |-> "User Sign-Up", path |-> "/guidelines/user-api/#user-sign-up"], [title |-> "Customer Guide", path |-> "/tutorials/customer-guide/"]>>],
    [keywords |-> <<"user sign up", "signup", "sign-up", "register user", "create account">>,
     url |-> "/guidelines/user-api/#user-sign-up", title |-> "User Sign-Up",
     related |-> <<[title |-> "Send User Invitation", path |-> "/guidelines/user-api/#send-user-invitation"]>>],
    [keywords |-> <<"change password", "update password", "new password">>,
     url |-> "/guidelines/user-api/#change-password", title |-> "Change Password",
     related |-> <<[title |-> "Forgot Password", path |-> "/guidelines/user-api/#forgot-password"]>>],
    [keywords |-> <<"forgot password", "reset password", "password reset", "recover password">>,
     url |-> "/guidelines/user-api/#forgot-password", title |-> "Forgot Password",
     related |-> <<[title |-> "Change Password", path |-> "/guidelines/user-api/#change-password"]>>],
    [keywords |-> <<"user api", "user account", "user permissions", "user role">>,
     url |-> "/guidelines/user-api/", title |-> "User API",
     related |-> <<[title |-> "Sign Up a New Customer", path |-> "/tutorials/customer-guide/"]>>],
    [keywords |-> <<"list organizations", "allowed organizations", "get organizations", "organization list">>,
     url |-> "/guidelines/workspace-api/#get-list-of-allowed-organizations", title |-> "Get List of Allowed Organizations",
     related |-> <<[title |-> "Get Organization Details", path |-> "/guidelines/workspace-api/#get-organization-details"]>>],
    [keywords |-> <<"organization details", "get organization", "org details">>,
     url |-> "/guidelines/workspace-api/#get-organization-details", title |-> "Get Organization Details",
     related |-> <<[title |-> "Update Organization Profile", path |-> "/guidelines/workspace-api/#update-organization-profile"]>>],
    [keywords |-> <<"update organization", "edit organization", "modify organization", "organization profile">>,
     url |-> "/guidelines/workspace-api/#update-organization-profile", title |-> "Update Organization Profile",
     related |-> <<[title |-> "Get Organization Details", path |-> "/guidelines/workspace-api/#get-organization-details"]>>],
    [keywords |-> <<"check domain", "available domain", "domain availability", "domain check">>,
     url |-> "/guidelines/workspace-api/#check-for-available-domain", title |-> "Check for Available Domain",
     related |-> <<[title |-> "Update Organization Profile", path |-> "/guidelines/workspace-api/#update-organization-profile"]>>],
    [keywords |-> <<"list customers", "get customers", "customer list", "all customers">>,
     url |-> "/guidelines/workspace-api/#get-list-of-customers", title |-> "Get List of Customers",
     related |-> <<[title |-> "Create Customer", path |-> "/guidelines/workspace-api/#create-customer"], [title |-> "Customer Guide", path |-> "/tutorials/customer-guide/"]>>],
    [keywords |-> <<"create customer", "new customer workspace", "add customer">>,
     url |-> "/guidelines/workspace-api/#create-customer", title |-> "Create Customer",
     related |-> <<[title |-> "Update Customer", path |-> "/guidelines/workspace-api/#update-customer"], [title |-> "Customer Guide", path |-> "/tutorials/customer-guide/"]>>],
    [keywords |-> <<"update customer", "edit customer", "modify customer">>,
     url |-> "/guidelines/workspace-api/#update-customer", title |-> "Update Customer",
     related |-> <<[title |-> "Get List of Customers", path |-> "/guidelines/workspace-api/#get-list-of-customers"]>>],
    [keywords |-> <<"assign customer", "customer assignment", "assign workspace">>,
     url |-> "/guidelines/workspace-api/#assign-customer", title |-> "Assign Customer",
     related |-> <<[title |-> "Get List of Customers", path |-> "/guidelines/workspace-api/#get-list-of-customers"]>>],
    [keywords |-> <<"workspace api", "organization workspace", "switch workspace">>,
     url |-> "/guidelines/workspace-api/", title |-> "Workspace API",
     related |-> <<[title |-> "Customer Guide", path |-> "/tutorials/customer-guide/"]>>],
    [keywords |-> <<"customer finance", "finance details", "get finance", "customer billing">>,
     url |-> "/guidelines/finance-api/#get-customer-finance-details", title |-> "Get Customer Finance Details",
     related |-> <<[title |-> "Customer Margin Details", path |-> "/guidelines/finance-api/#get-customer-margin-details"]>>],
    [keywords |-> <<"customer margin", "margin details", "get margin", "margin percentage">>,
     url |-> "/guidelines/finance-api/#get-customer-margin-details", title |-> "Get Customer Margin Details",
     related |-> <<[title |-> "Update Customer Margin", path |-> "/guidelines/finance-api/#update-customer-margin-details"]>>],
    [keywords |-> <<"update margin", "edit margin", "change margin", "set margin">>,
     url |-> "/guidelines/finance-api/#update-customer-margin-details", title |-> "Update Customer Margin Details",
     related |-> <<[title |-> "Get Customer Margin Details", path |-> "/guidelines/finance-api/#get-customer-margin-details"]>>],
    [keywords |-> <<"campaign margin", "campaign finance", "margin by campaign">>,
     url |-> "/guidelines/finance-api/#campaign-margin-details", title |-> "Campaign Margin Details",
     related |-> <<[title |-> "Get Customer Margin Details", path |-> "/guidelines/finance-api/#get-customer-margin-details"]>>],
    [keywords |-> <<"invoice", "invoices", "invoice list", "get invoices", "billing invoice">>,
     url |-> "/guidelines/finance-api/#invoice-operations", title |-> "Invoice Operations",
     related |-> <<[title |-> "Get Customer Finance Details", path |-> "/guidelines/finance-api/#get-customer-finance-details"]>>],
    [keywords |-> <<"create invoice", "new invoice", "generate invoice">>,
     url |-> "/guidelines/finance-api/#create-invoice", title |-> "Create Invoice",
     related |-> <<[title |-> "Invoice Operations", path |-> "/guidelines/finance-api/#invoice-operations"]>>],
    [keywords |-> <<"credit", "customer credit", "credit balance", "add credit">>,
     url |-> "/guidelines/finance-api/#credit-operations", title |-> "Credit Operations",
     related |-> <<[title |-> "Payment Operations", path |-> "/guidelines/finance-api/#payment-operations"]>>],
    [keywords |-> <<"payment", "payments", "payment history", "record payment">>,
     url |-> "/guidelines/finance-api/#payment-operations", title |-> "Payment Operations",
     related |-> <<[title |-> "Credit Operations", path |-> "/guidelines/finance-api/#credit-operations"]>>],
    [keywords |-> <<"finance", "billing", "budget", "finance api">>,
     url |-> "/guidelines/finance-api/", title |-> "Finance API",
     related |-> <<[title |-> "Get Customer Finance Details", path |-> "/guidelines/finance-api/#get-customer-finance-details"]>>],
    [keywords |-> <<"dashboard list", "list dashboards", "get dashboards", "my dashboards">>,
     url |-> "/guidelines/dashboard-api/#get-dashboard-list", title |-> "Get Dashboard List",
     related |-> <<[title |-> "Create Dashboard", path |-> "/guidelines/dashboard-api/#create-dashboard"]>>],
    [keywords |-> <<"create dashboard", "new dashboard", "add dashboard">>,
     url |-> "/guidelines/dashboard-api/#create-dashboard", title |-> "Create Dashboard",
     related |-> <<[title |-> "Update Dashboard", path |-> "/guidelines/dashboard-api/#update-dashboard"]>>],
    [keywords |-> <<"update dashboard", "edit dashboard", "modify dashboard">>,
     url |-> "/guidelines/dashboard-api/#update-dashboard", title |-> "Update Dashboard",
     related |-> <<[title |-> "Delete Dashboard", path |-> "/guidelines/dashboard-api/#delete-dashboard"]>>],
    [keywords |-> <<"delete dashboard", "remove dashboard">>,
     url |-> "/guidelines/dashboard-api/#delete-dashboard", title |-> "Delete Dashboard",
     related |-> <<[title |-> "Get Dashboard List", path |-> "/guidelines/dashboard-api/#get-dashboard-list"]>>],
    [keywords |-> <<"dashboard dimensions", "dashboard metrics", "available dimensions", "available metrics">>,
     url |-> "/guidelines/dashboard-api/#get-dimensions-and-metrics-for-dashboard", title |-> "Get Dimensions and Metrics for Dashboard",
     related |-> <<[title |-> "Dashboard Resource Properties", path |-> "/guidelines/dashboard-api/#dashboard-resource-properties"]>>],
    [keywords |-> <<"dashboard resource", "dashboard properties", "dashboard schema">>,
     url |-> "/guidelines/dashboard-api/#dashboard-resource-properties", title |-> "Dashboard Resource Properties",
     related |-> <<[title |-> "Create Dashboard", path |-> "/guidelines/dashboard-api/#create-dashboard"]>>],
    [keywords |-> <<"dashboard", "overview", "summary", "dashboard api">>,
     url |-> "/guidelines/dashboard-api/", title |-> "Dashboard API",
     related |-> <<[title |-> "Get Dashboard List", path |-> "/guidelines/dashboard-api/#get-dashboard-list"]>>],
    [keywords |-> <<"list assets", "asset list", "get assets", "all assets">>,
     url |-> "/guidelines/asset-api/#get-a-list-of-all-assets", title |-> "Get a List of All Assets",
     related |-> <<[title |-> "Get Asset Details", path |-> "/guidelines/asset-api/#get-asset-details"]>>],
    [keywords |-> <<"asset details", "get asset", "asset by id", "specific asset">>,
     url |-> "/guidelines/asset-api/#get-asset-details", title |-> "Get Asset Details",
     related |-> <<[title |-> "Get a List of All Assets", path |-> "/guidelines/asset-api/#get-a-list-of-all-assets"]>>],
    [keywords |-> <<"add assets", "upload assets", "add multiple assets", "upload asset">>,
     url |-> "/guidelines/asset-api/#add-multiple-assets", title |-> "Add Multiple Assets",
     related |-> <<[title |-> "Update Asset Details", path |-> "/guidelines/asset-api/#update-asset-details"]>>],
    [keywords |-> <<"update asset", "edit asset", "modify asset">>,
     url |-> "/guidelines/asset-api/#update-asset-details", title |-> "Update Asset Details",
     related |-> <<[title |-> "Delete Asset", path |-> "/guidelines/asset-api/#delete-asset"]>>],
    [keywords |-> <<"delete asset", "remove asset">>,
     url |-> "/guidelines/asset-api/#delete-asset", title |-> "Delete Asset",
     related |-> <<[title |-> "Get a List of All Assets", path |-> "/guidelines/asset-api/#get-a-list-of-all-assets"]>>],
    [keywords |-> <<"asset", "asset api", "media", "file upload", "image asset">>,
     url |-> "/guidelines/asset-api/", title |-> "Asset API",
     related |-> <<[title |-> "Upload a Creative", path |-> "/quickstart-guides/upload-a-creative-quickstart/"]>>],
    [keywords |-> <<"political", "political ads", "election", "voter file">>,
     url |-> "/political-vertical/", title |-> "Political Advertising",
     related |-> <<>>],
    [keywords |-> <<"healthcare", "health", "pharma", "medical", "hipaa">>,
     url |-> "/healthcare-vertical/", title |-> "Healthcare Advertising",
     related |-> <<>>],
    [keywords |-> <<"migrate", "migration", "switch", "dv360", "xandr", "trade desk", "beeswax">>,
     url |-> "/migration-guides/", title |-> "Migration Guides",
     related |-> <<>>],
    [keywords |-> <<"getting started", "begin", "start", "introduction", "new", "first">>,
     url |-> "/getting-started/before-you-begin/", title |-> "Before You Begin",
     related |-> <<[title |-> "Platform Overview", path |-> "/getting-started/platform-overview/"], [title |-> "REST API Reference", path |-> "/getting-started/rest-api-reference/"]>>]
  >>

\* the bullet of the fallback texts, U+2022, written as an ASCII stand-in
Bullet == "^"

RECURSIVE RelatedLines(_)
RelatedLines(related) ==
  IF Len(related) = 0 THEN ""
  ELSE "\n" \o Bullet \o " [" \o Head(related).title \o "](" \o Head(related).path \o ")"
       \o RelatedLines(Tail(related))

navigateAction(path) ==
  [tool |-> "navigate", params |-> [path |-> path], status |-> "pending"]

buildFallbackResponse(route) ==
  [response |-> "Check out the **[" \o route.title \o "](" \o route.url \o ")** guide."
                \o (IF Len(route.related) > 0
                      THEN "\n\nRelated:" \o RelatedLines(route.related)
                      ELSE ""),
   actions |-> <<navigateAction(route.url)>>,
   fallback |-> TRUE]

genericFallback ==
  [response |-> "I couldn't find a specific guide for that. Here are some starting points:\n\n"
                \o Bullet \o " [Create a Campaign](/quickstart-guides/create-a-campaign-quickstart/)\n"
                \o Bullet \o " [Upload a Creative](/quickstart-guides/upload-a-creative-quickstart/)\n"
                \o Bullet \o " [API Guidelines](/guidelines/) - All endpoints\n\n"
                \o "Try the search bar for more specific topics.",
   actions |-> <<>>,
   fallback |-> TRUE]

\* mutant of ReplacesBest: the first matching keyword wins, whatever its length
ReplacesBest_FirstMatch(lowerMessage, kw, bestMatchLength) ==
  bestMatchLength = 0 /\ includes(lowerMessage, kw)

\* mutant of ReplacesBest: a keyword as long as the best match replaces it too
ReplacesBest_OrEqual(lowerMessage, kw, bestMatchLength) ==
  Len(kw) >= bestMatchLength /\ includes(lowerMessage, kw)

\* the test of the scan loop: does keyword kw replace the current best match?
\* (lowerMessage.includes(kw) && kw.length > bestMatchLength; the two tests
\* have no side effect and are written length first)
ReplacesBest(lowerMessage, kw, bestMatchLength) ==
  Len(kw) > bestMatchLength /\ includes(lowerMessage, kw)

\* the inner loop, over the keywords of route r from keyword k on; best is
\* [route |-> index of bestMatch (0: null), length |-> bestMatchLength]
RECURSIVE ScanKeywords(_, _, _, _)
ScanKeywords(lowerMessage, r, k, best) ==
  IF k > Len(contentRoutes[r].keywords) THEN best
  ELSE LET kw == contentRoutes[r].keywords[k]
       IN IF ReplacesBest(lowerMessage, kw, best.length)
            THEN ScanKeywords(lowerMessage, r, k + 1, [route |-> r, length |-> Len(kw)])
            ELSE ScanKeywords(lowerMessage, r, k + 1, best)

\* the outer loop, over routes lo..hi in table order.  The range is split in
\* two halves scanned one after the other (first lo..mid, then its result is
\* carried into mid+1..hi), which is the same left-to-right loop and keeps
\* the evaluation stack shallow.
RECURSIVE ScanRoutes(_, _, _, _)
ScanRoutes(lowerMessage, lo, hi, best) ==
  IF lo > hi THEN best
  ELSE IF lo = hi THEN ScanKeywords(lowerMessage, lo, 1, best)
  ELSE LET mid == (lo + hi) \div 2
           firstHalf == ScanRoutes(lowerMessage, lo, mid, best)
       IN IF firstHalf.length >= 0
            THEN ScanRoutes(lowerMessage, mid + 1, hi, firstHalf)
            ELSE firstHalf

\* mutant of BestMatch: the scan starts from a minimal length of 2, so that
\* two-letter keywords never match
BestMatch_SkipShort(lowerMessage) ==
  ScanRoutes(lowerMessage, 1, Len(contentRoutes), [route |-> 0, length |-> 2]).route

\* bestMatch after the loop: a route index, 0 for null
BestMatch(lowerMessage) ==
  ScanRoutes(lowerMessage, 1, Len(contentRoutes), [route |-> 0, length |-> 0]).route

\* mutant of FallbackBranch: the route table is consulted before the auth check
FallbackBranch_TableFirst(message) ==
  LET lowerMessage == toLowerCase(message)
      bestMatch == BestMatch(lowerMessage)
  IN IF bestMatch # 0 THEN [kind |-> "content", route |-> bestMatch]
     ELSE IF isExplicitAuthQuestion(lowerMessage) THEN [kind |-> "auth", route |-> 0]
     ELSE [kind |-> "generic", route |-> 0]

\* which branch generateFallbackResponse returns from
FallbackBranch(message) ==
  LET lowerMessage == toLowerCase(message)
  IN IF isExplicitAuthQuestion(lowerMessage) THEN [kind |-> "auth", route |-> 0]
     ELSE LET bestMatch == BestMatch(lowerMessage)
          IN IF bestMatch # 0 THEN [kind |-> "content", route |-> bestMatch]
             ELSE [kind |-> "generic", route |-> 0]

generateFallbackResponse(message) ==
  LET b == FallbackBranch(message)
  IN CASE b.kind = "auth" -> buildFallbackResponse(authRoute)
       [] b.kind = "content" -> buildFallbackResponse(contentRoutes[b.route])
       [] OTHER -> genericFallback

---------------------------------------------------------------------------
(* Inputs of the fallback router: messages made of words                   *)

MaxWords == 3

\* "Login" has an upper-case letter and is a whole-word auth term; "bloginx"
\* holds "login" inside a word; "radio" holds the two-letter keyword "io"
FbWords == <<"update", "campaign", "status", "Login", "bloginx", "radio">>

RECURSIVE JoinWords(_)
JoinWords(ws) ==
  IF Len(ws) = 0 THEN ""
  ELSE IF Len(ws) = 1 THEN FbWords[ws[1]]
  ELSE FbWords[ws[1]] \o " " \o JoinWords(Tail(ws))

\* messages with a keyword that two routes list, or with two keywords of one
\* length in different routes
FbTieMessages ==
  {"schedule report", "Pixel conversion", "customer list export", "start media"}

FbMessages ==
  {JoinWords(ws) : ws \in UNION {[1..n -> 1..Len(FbWords)] : n \in 1..MaxWords}}
  \cup FbTieMessages

---------------------------------------------------------------------------
(* Link Builder: AIService.buildStructuredLinks                            *)
(*                                                                         *)
(* A hit is the record AlgoliaService.transformHit returns; a field that   *)
(* is null, undefined or '' in the code (all falsy) is "" here.  The       *)
(* primary link is a sequence of at most one record (<<>>: null), and the  *)
(* related mapping is the sequence of its buckets in insertion order.      *)

\* hit.url?.split('#')[0]
\* mutant of BaseUrl: the anchor stays
BaseUrl_Keep(url) == url

BaseUrl(url) == SplitFirst(url, "#")

getCategoryFromUrl(url) ==
  IF url = "" THEN ""
  ELSE IF includes(url, "/quickstart-guides/") THEN "quickstart"
  ELSE IF includes(url, "/guidelines/") THEN "guidelines"
  ELSE IF includes(url, "/tutorials/") THEN "tutorials"
  ELSE IF includes(url, "/getting-started/") THEN "reference"
  ELSE IF includes(url, "/migration-guides/") THEN "migration"
  ELSE IF includes(url, "/political-vertical/") THEN "political"
  ELSE IF includes(url, "/healthcare-vertical/") THEN "healthcare"
  ELSE ""

categoryLabels ==
  <<<<"quickstart", "Quickstart Guides">>,
    <<"guidelines", "API Guidelines">>,
    <<"tutorials", "Tutorials">>,
    <<"reference", "Getting Started">>,
    <<"migration", "Migration Guides">>,
    <<"political", "Political Vertical">>,
    <<"healthcare", "Healthcare Vertical">>>>

\* labels[category] || category || 'Documentation'
getCategoryLabel(category) ==
  IF \E i \in 1..Len(categoryLabels) : categoryLabels[i][1] = category
    THEN categoryLabels[CHOOSE i \in 1..Len(categoryLabels) : categoryLabels[i][1] = category][2]
  ELSE IF category # "" THEN category
  ELSE "Documentation"

getPageTitle(hit) ==
  IF hit.section # "" THEN hit.section
  ELSE IF hit.lvl1 # "" THEN hit.lvl1
  ELSE IF hit.displayCategory # "" THEN hit.displayCategory
  ELSE LET title == IF hit.title # "" THEN hit.title ELSE "Documentation"
       IN trim(SplitFirst(SplitFirst(title, " | "), " - "))

\* the mappings of getCorrespondingGuidelinesUrl, in the order of the object
guidelinesMappings ==
  <<<<"create-a-campaign", "/guidelines/campaign-api/">>,
    <<"campaign", "/guidelines/campaign-api/">>,
    <<"creative", "/guidelines/creative-api/">>,
    <<"upload-a-creative", "/guidelines/creative-api/">>,
    <<"upload-creative-and-create-a-campaign", "/guidelines/campaign-api/">>,
    <<"reporting", "/guidelines/reports-api/">>,
    <<"schedule-report", "/guidelines/reports-api/">>,
    <<"conversion", "/guidelines/conversion-api/">>,
    <<"inventory", "/guidelines/inventory-api/">>,
    <<"bid-model", "/guidelines/bid-model-api/">>,
    <<"insights", "/guidelines/insights-api/">>,
    <<"matched-audience", "/guidelines/audience-api/">>,
    <<"contextual-audience", "/guidelines/audience-api/">>,
    <<"authentication", "/getting-started/before-you-begin/">>>>

\* the first mapping whose pattern the url contains; "" for null
getCorrespondingGuidelinesUrl(quickstartUrl) ==
  IF quickstartUrl = "" THEN ""
  ELSE IF \E i \in 1..Len(guidelinesMappings) : includes(quickstartUrl, guidelinesMappings[i][1])
    THEN guidelinesMappings[CHOOSE i \in 1..Len(guidelinesMappings) :
           /\ includes(quickstartUrl, guidelinesMappings[i][1])
           /\ \A j \in 1..(i - 1) : ~includes(quickstartUrl, guidelinesMappings[j][1])][2]
  ELSE ""

guidelinesTitles ==
  <<<<"/guidelines/campaign-api/", "Campaign API Guidelines">>,
    <<"/guidelines/creative-api/", "Creative API Guidelines">>,
    <<"/guidelines/reports-api/", "Reports API Guidelines">>,
    <<"/guidelines/conversion-api/", "Conversion API Guidelines">>,
    <<"/guidelines/inventory-api/", "Inventory API Guidelines">>,
    <<"/guidelines/bid-model-api/", "Bid Model API Guidelines">>,
    <<"/guidelines/insights-api/", "Insights API Guidelines">>,
    <<"/guidelines/audience-api/", "Audience API Guidelines">>,
    <<"/getting-started/before-you-begin/", "Before You Begin">>>>

getGuidelinesTitle(url) ==
  IF \E i \in 1..Len(guidelinesTitles) : guidelinesTitles[i][1] = url
    THEN guidelinesTitles[CHOOSE i \in 1..Len(guidelinesTitles) : guidelinesTitles[i][1] = url][2]
  ELSE "API Guidelines"

\* hit.category || this.getCategoryFromUrl(hit.url)
HitCategory(hit) ==
  IF hit.category # "" THEN hit.category ELSE getCategoryFromUrl(hit.url)

\* the place of the bucket of a label in the related mapping, 0 when absent
BucketOf(related, label) ==
  IF \E i \in 1..Len(related) : related[i].label = label
    THEN CHOOSE i \in 1..Len(related) : related[i].label = label
    ELSE 0

\* the limit of a related bucket
MaxPerCategory == 3

\* mutant of RelatedStep: the bucket length is not tested before the push
RelatedStep_NoLimit(acc, hit, isQuickstartOrTutorial) ==
  LET hitCategory == HitCategory(hit)
      hitBasePath == BaseUrl(hit.url)
      categoryLabel == getCategoryLabel(hitCategory)
      withBucket == IF BucketOf(acc.related, categoryLabel) = 0
                      THEN Append(acc.related, [label |-> categoryLabel, entries |-> <<>>])
                      ELSE acc.related
      b == BucketOf(withBucket, categoryLabel)
  IN IF hitBasePath \in acc.seenBaseUrls THEN acc
     ELSE IF isQuickstartOrTutorial /\ hitCategory # "guidelines" THEN acc
     ELSE [related |-> [withBucket EXCEPT ![b].entries =
                          Append(@, [title |-> getPageTitle(hit), url |-> hitBasePath])],
           seenBaseUrls |-> acc.seenBaseUrls \cup {hitBasePath}]

\* mutant of RelatedStep: hits of every category are related to a quickstart
\* or tutorial
RelatedStep_NoSkip(acc, hit, isQuickstartOrTutorial) ==
  LET hitCategory == HitCategory(hit)
      hitBasePath == BaseUrl(hit.url)
      categoryLabel == getCategoryLabel(hitCategory)
      withBucket == IF BucketOf(acc.related, categoryLabel) = 0
                      THEN Append(acc.related, [label |-> categoryLabel, entries |-> <<>>])
                      ELSE acc.related
      b == BucketOf(withBucket, categoryLabel)
  IN IF hitBasePath \in acc.seenBaseUrls THEN acc
     ELSE IF Len(withBucket[b].entries) < MaxPerCategory
       THEN [related |-> [withBucket EXCEPT ![b].entries =
                            Append(@, [title |-> getPageTitle(hit), url |-> hitBasePath])],
             seenBaseUrls |-> acc.seenBaseUrls \cup {hitBasePath}]
       ELSE [related |-> withBucket, seenBaseUrls |-> acc.seenBaseUrls]

\* one round of hits.slice(1).forEach: acc is [related, seenBaseUrls]
RelatedStep(acc, hit, isQuickstartOrTutorial) ==
  LET hitCategory == HitCategory(hit)
      hitBasePath == BaseUrl(hit.url)
      categoryLabel == getCategoryLabel(hitCategory)
      \* if (!related[categoryLabel]) related[categoryLabel] = []
      withBucket == IF BucketOf(acc.related, categoryLabel) = 0
                      THEN Append(acc.related, [label |-> categoryLabel, entries |-> <<>>])
                      ELSE acc.related
      b == BucketOf(withBucket, categoryLabel)
  IN IF hitBasePath \in acc.seenBaseUrls THEN acc
     ELSE IF isQuickstartOrTutorial /\ hitCategory # "guidelines" THEN acc
     ELSE IF Len(withBucket[b].entries) < MaxPerCategory
       THEN [related |-> [withBucket EXCEPT ![b].entries =
                            Append(@, [title |-> getPageTitle(hit), url |-> hitBasePath])],
             seenBaseUrls |-> acc.seenBaseUrls \cup {hitBasePath}]
       ELSE [related |-> withBucket, seenBaseUrls |-> acc.seenBaseUrls]

\* hits.slice(1).forEach(...), from hit i on
RECURSIVE RelatedLoop(_, _, _, _)
RelatedLoop(acc, hits, i, isQuickstartOrTutorial) ==
  IF i > Len(hits) THEN acc
  ELSE RelatedLoop(RelatedStep(acc, hits[i], isQuickstartOrTutorial), hits, i + 1,
                   isQuickstartOrTutorial)

\* mutant of InjectGuidelines: nothing is added before the loop
InjectGuidelines_Never(primaryHit, isQuickstartOrTutorial) ==
  [related |-> <<>>, seenBaseUrls |-> {BaseUrl(primaryHit.url)}]

\* the related mapping and seen set before the loop: the guidelines page of a
\* quickstart or tutorial primary is added without looking at the seen set
InjectGuidelines(primaryHit, isQuickstartOrTutorial) ==
  LET primaryBasePath == BaseUrl(primaryHit.url)
      guidelinesUrl == getCorrespondingGuidelinesUrl(primaryHit.url)
  IN IF isQuickstartOrTutorial /\ guidelinesUrl # ""
       THEN [related |-> <<[label |-> getCategoryLabel("guidelines"),
                            entries |-> <<[title |-> getGuidelinesTitle(guidelinesUrl),
                                           url |-> guidelinesUrl]>>]>>,
             seenBaseUrls |-> {primaryBasePath, guidelinesUrl}]
       ELSE [related |-> <<>>, seenBaseUrls |-> {primaryBasePath}]

noLinks == [primary |-> <<>>, related |-> <<>>]

buildStructuredLinks(hits) ==
  IF Len(hits) = 0 THEN noLinks
  ELSE LET primaryHit == hits[1]
           primaryCategory == HitCategory(primaryHit)
           primary == [title |-> getPageTitle(primaryHit),
                       url |-> BaseUrl(primaryHit.url),
                       category |-> getCategoryLabel(primaryCategory)]
           isQuickstartOrTutorial == primaryCategory \in {"quickstart", "tutorials"}
       IN [primary |-> <<primary>>,
           related |-> RelatedLoop(InjectGuidelines(primaryHit, isQuickstartOrTutorial),
                                   hits, 2, isQuickstartOrTutorial).related]

---------------------------------------------------------------------------
(* Inputs of the link builder: lists of transformed hits                   *)

MaxHits == 4

Hit(url, category, section, displayCategory) ==
  [url |-> url, category |-> category, section |-> section, lvl1 |-> "",
   displayCategory |-> displayCategory, title |-> "Untitled", anchor |-> "", type |-> "lvl1"]

\* the hits tried.  The category is the index's custom attribute when it has
\* one (transformHit: hit.category || getCategoryFromUrl(url)); the second hit
\* is a guidelines page that the index labels a quickstart.
HitPool ==
  <<Hit("/quickstart-guides/create-a-campaign-quickstart/", "quickstart", "", "Quickstart Guides"),
    Hit("/guidelines/campaign-api/", "quickstart", "", "Campaign API"),
    Hit("/guidelines/campaign-api/#create-campaign", "guidelines", "Campaign API", "Guidelines"),
    Hit("/guidelines/creative-api/", "guidelines", "", "Creative API"),
    Hit("/guidelines/audience-api/#audience-details-list", "guidelines", "Audience API", "Guidelines"),
    Hit("/guidelines/reports-api/", "guidelines", "", "Reports API"),
    Hit("/tutorials/deal-guide/", "tutorials", "", "Tutorials")>>

HitLists ==
  {<<>>} \cup
  UNION {{[i \in 1..n |-> HitPool[f[i]]] : f \in [1..n -> 1..Len(HitPool)]} : n \in 1..MaxHits}

---------------------------------------------------------------------------
(* Intent Classifier and Search Term Extractor:                            *)
(* AIService.detectQueryIntent and AIService.extractSearchTerms            *)

\* mutant of detectQueryIntent: the update verbs are tested before the create
\* verbs
detectQueryIntent_UpdateFirst(message) ==
  LET lower == toLowerCase(message)
  IN IF \E t \in {"migration", "migrate", "healthcare", "political", "pld", "vld"} :
          includes(lower, t)
       THEN [intent |-> "specific", specialCategory |-> TRUE]
     ELSE IF TestWholeWord(<<"update", "edit", "modify", "change", "patch", "put", "delete",
                             "remove">>, lower)
       THEN [intent |-> "update", specialCategory |-> FALSE]
     ELSE IF TestWholeWord(<<"create", "make", "build", "add", "new", "set up", "setup",
                             "register", "sign up", "upload">>, lower)
       THEN [intent |-> "create", specialCategory |-> FALSE]
     ELSE IF TestWholeWord(<<"what is", "what are", "explain", "understand", "overview",
                             "concept", "difference", "between">>, lower)
            /\ ~TestWholeWord(<<"get", "fetch", "retrieve", "list", "find", "search", "query",
                                "read">>, lower)
       THEN [intent |-> "conceptual", specialCategory |-> FALSE]
     ELSE [intent |-> "get", specialCategory |-> FALSE]

detectQueryIntent(message) ==
  LET lower == toLowerCase(message)
      specialCategoryTerms ==
        <<"migration", "migrate", "healthcare", "political", "pld", "vld">>
      createTerms ==
        <<"create", "make", "build", "add", "new", "set up", "setup", "register",
          "sign up", "upload">>
      updateTerms ==
        <<"update", "edit", "modify", "change", "patch", "put", "delete", "remove">>
      getTerms ==
        <<"get", "fetch", "retrieve", "list", "find", "search", "query", "read">>
      conceptualTerms ==
        <<"what is", "what are", "explain", "understand", "overview", "concept",
          "difference", "between">>
  IN IF \E t \in 1..Len(specialCategoryTerms) : includes(lower, specialCategoryTerms[t])
       THEN [intent |-> "specific", specialCategory |-> TRUE]
     ELSE IF TestWholeWord(createTerms, lower)
       THEN [intent |-> "create", specialCategory |-> FALSE]
     ELSE IF TestWholeWord(updateTerms, lower)
       THEN [intent |-> "update", specialCategory |-> FALSE]
     ELSE IF TestWholeWord(getTerms, lower)
       THEN [intent |-> "get", specialCategory |-> FALSE]
     ELSE IF TestWholeWord(conceptualTerms, lower)
       THEN [intent |-> "conceptual", specialCategory |-> FALSE]
     ELSE [intent |-> "get", specialCategory |-> FALSE]

stopWords ==
  {"how", "do", "i", "can", "you", "me", "the", "a", "an", "to", "find",
   "what", "is", "are", "where", "when", "which", "who", "why", "show",
   "tell", "about", "for", "with", "from", "in", "on", "at", "of", "my",
   "your", "their", "please", "help", "need", "want", "would", "like",
   "should", "could", "using", "there", "types", "kind", "kinds",
   "different"}

entityKeywords ==
  <<<<"audience", "audience api">>,
    <<"audiences", "audience api">>,
    <<"targeting", "audience api campaign">>,
    <<"matched", "matched audience api">>,
    <<"contextual", "contextual audience api">>,
    <<"segment", "audience segment api">>,
    <<"campaign", "campaign api">>,
    <<"campaigns", "campaign api">>,
    <<"creative", "creative api">>,
    <<"creatives", "creative api">>,
    <<"conversion", "conversion api">>,
    <<"conversions", "conversion api">>,
    <<"tracking", "conversion tracking api">>,
    <<"pixel", "conversion pixel api">>,
    <<"postback", "conversion postback api">>,
    <<"io", "insertion order campaign api">>,
    <<"insertion", "insertion order campaign api">>,
    <<"report", "reports api">>,
    <<"reports", "reports api">>,
    <<"reporting", "reports api">>,
    <<"insights", "insights api">>,
    <<"vld", "voter level data insights api">>,
    <<"pld", "patient level data insights api">>,
    <<"dashboard", "dashboard api">>,
    <<"inventory", "inventory api">>,
    <<"deal", "inventory deal api">>,
    <<"deals", "inventory deal api">>,
    <<"bid", "bid model api">>,
    <<"bidding", "bid model api">>,
    <<"priority", "bid model priority api">>,
    <<"workspace", "workspace api">>,
    <<"organization", "workspace organization api">>,
    <<"advertiser", "workspace advertiser api">>,
    <<"customer", "workspace customer api">>,
    <<"user", "user management api">>,
    <<"login", "user authentication api">>,
    <<"authentication", "user authentication api">>,
    <<"invoice", "finance invoice api">>,
    <<"payment", "finance payment api">>,
    <<"credit", "finance credit api">>,
    <<"budget", "campaign budget api">>,
    <<"planner", "planner api">>,
    <<"proposal", "planner proposal api">>,
    <<"reach", "planner reach api">>>>

\* mutant of removePunctuation: the punctuation stays
removePunctuation_Keep(s) == s

\* s.replace(/[?!.,;:'"]/g, '')
RECURSIVE removePunctuation(_)
removePunctuation(s) ==
  IF Len(s) = 0 THEN ""
  ELSE IF Len(s) = 1 THEN (IF s \in {"?", "!", ".", ",", ";", ":", "'", "\""} THEN "" ELSE s)
  ELSE LET mid == Len(s) \div 2
       IN removePunctuation(SubSeq(s, 1, mid)) \o removePunctuation(SubSeq(s, mid + 1, Len(s)))

\* s.split(/\s+/): the pieces between the runs of white space, with the empty
\* piece a leading or a trailing run leaves
RECURSIVE splitWhitespace(_, _)
splitWhitespace(s, piece) ==
  LET first == Least({i \in 1..Len(s) : IsSpace(SubSeq(s, i, i))})
      after == Least({j \in (first + 1)..Len(s) : ~IsSpace(SubSeq(s, j, j))})
  IN IF first = 0 THEN <<piece \o s>>
     ELSE <<piece \o SubSeq(s, 1, first - 1)>>
          \o splitWhitespace(IF after = 0 THEN "" ELSE SubSeq(s, after, Len(s)), "")

\* the for loop over Object.entries(entityKeywords) from entry k on: the first
\* entry whose keyword is among the words replaces the first occurrence of
\* that keyword, and the loop ends
\* mutant of enhanceEntity: the loop over the table does not break
RECURSIVE enhanceEntity_NoBreak(_, _)
enhanceEntity_NoBreak(words, k) ==
  IF k > Len(entityKeywords) THEN words
  ELSE LET idx == Least({i \in 1..Len(words) : words[i] = entityKeywords[k][1]})
       IN IF idx # 0
            THEN enhanceEntity_NoBreak([words EXCEPT ![idx] = entityKeywords[k][2]], k + 1)
            ELSE enhanceEntity_NoBreak(words, k + 1)

\* mutant of enhanceEntity: the first keyword of the query is expanded
enhanceEntity_QueryOrder(words, k) ==
  LET idx == Least({i \in 1..Len(words) :
                     \E e \in 1..Len(entityKeywords) : words[i] = entityKeywords[e][1]})
      entry == Least({e \in 1..Len(entityKeywords) : words[idx] = entityKeywords[e][1]})
  IN IF idx = 0 THEN words ELSE [words EXCEPT ![idx] = entityKeywords[entry][2]]

RECURSIVE enhanceEntity(_, _)
enhanceEntity(words, k) ==
  IF k > Len(entityKeywords) THEN words
  ELSE LET idx == Least({i \in 1..Len(words) : words[i] = entityKeywords[k][1]})
       IN IF idx # 0
            THEN [words EXCEPT ![idx] = entityKeywords[k][2]]
            ELSE enhanceEntity(words, k + 1)

\* words.join(' ')
RECURSIVE join(_, _)
join(words, sep) ==
  IF Len(words) = 0 THEN ""
  ELSE IF Len(words) = 1 THEN words[1]
  ELSE words[1] \o sep \o join(Tail(words), sep)

\* mutant of extractSearchTerms: the words are joined even when none is left
extractSearchTerms_NoFallback(message) ==
  LET pieces == splitWhitespace(removePunctuation(toLowerCase(message)), "")
      filtered == SelectSeq(pieces, LAMBDA word : Len(word) > 1 /\ word \notin stopWords)
  IN join(enhanceEntity(filtered, 1), " ")

extractSearchTerms(message) ==
  LET pieces == splitWhitespace(removePunctuation(toLowerCase(message)), "")
      filtered == SelectSeq(pieces, LAMBDA word : Len(word) > 1 /\ word \notin stopWords)
      words == enhanceEntity(filtered, 1)
  IN IF Len(words) > 0 THEN join(words, " ") ELSE message

---------------------------------------------------------------------------
(* Search Gateway: AlgoliaService.transformHit, and the Reranker:          *)
(* AIService.rerankResults.                                                *)
(*                                                                         *)
(* A raw hit is the record of the index: url, anchor, type, category,      *)
(* content, highlight (_highlightResult.content.value) and the hierarchy   *)
(* levels lvl0, lvl1, lvl2; an attribute the index does not have is "".    *)

\* the longest content transformHit passes on: truncateContent(content, 200)
MaxContentLength == 200

\* s.lastIndexOf(sub) + 1
LastIndexOf(s, sub) ==
  LET S == {i \in 1..(Len(s) - Len(sub) + 1) : SubSeq(s, i, i + Len(sub) - 1) = sub}
  IN IF S = {} THEN 0 ELSE CHOOSE i \in S : \A j \in S : j <= i

truncateContent(content, maxLength) ==
  IF content = "" \/ Len(content) <= maxLength THEN content
  ELSE LET truncated == SubSeq(content, 1, maxLength)
           lastSpace == LastIndexOf(truncated, " ") - 1
       IN (IF lastSpace > 0 THEN SubSeq(truncated, 1, lastSpace) ELSE truncated) \o "..."

\* AlgoliaService.getCategoryFromUrl
AlgoliaService_getCategoryFromUrl(url) ==
  IF includes(url, "/quickstart-guides/") THEN "quickstart"
  ELSE IF includes(url, "/guidelines/") THEN "guidelines"
  ELSE IF includes(url, "/tutorials/") THEN "tutorials"
  ELSE IF includes(url, "/getting-started/") THEN "reference"
  ELSE IF includes(url, "/migration-guides/") THEN "migration"
  ELSE IF includes(url, "/political-vertical/") THEN "political"
  ELSE IF includes(url, "/healthcare-vertical/") THEN "healthcare"
  ELSE "reference"

transformHit(hit) ==
  LET \* url.replace(/^https?:\/\/[^\/]+/, '')
      scheme == IF WordAt(hit.url, 1, "https://") THEN Len("https://")
                ELSE IF WordAt(hit.url, 1, "http://") THEN Len("http://")
                ELSE 0
      slash == NextChar(hit.url, scheme + 1, "/")
      noDomain == IF scheme # 0 /\ slash > scheme + 1
                    THEN SubSeq(hit.url, slash, Len(hit.url))
                    ELSE hit.url
      \* url.replace(/^\/docs\//, '/')
      cleanUrl == IF WordAt(noDomain, 1, "/docs/")
                    THEN SubSeq(noDomain, Len("/docs/"), Len(noDomain))
                    ELSE noDomain
      url == IF hit.anchor # "" /\ ~includes(cleanUrl, "#")
               THEN cleanUrl \o "#" \o hit.anchor
               ELSE cleanUrl
      content == IF hit.highlight # "" THEN hit.highlight ELSE hit.content
  IN [title |-> IF hit.lvl2 # "" THEN hit.lvl2
                ELSE IF hit.lvl1 # "" THEN hit.lvl1
                ELSE IF hit.lvl0 # "" THEN hit.lvl0
                ELSE "Untitled",
      section |-> IF hit.lvl2 # "" THEN hit.lvl1 ELSE "",
      displayCategory |-> IF hit.lvl0 # "" THEN hit.lvl0 ELSE "Documentation",
      category |-> IF hit.category # "" THEN hit.category
                   ELSE AlgoliaService_getCategoryFromUrl(url),
      url |-> url,
      content |-> truncateContent(content, MaxContentLength),
      anchor |-> hit.anchor,
      type |-> hit.type,
      \* a transformed hit has no hierarchy of its own: hit.hierarchy?.lvl1
      lvl1 |-> ""]

\* this.categoryPriority: the boosts of an intent, as <<category, boost>>
categoryPriority(intent) ==
  IF intent = "create"
    THEN <<<<"Quickstart Guides", 100>>, <<"Tutorials", 95>>, <<"Getting Started", 50>>>>
  ELSE IF intent = "update"
    THEN <<<<"Quickstart Guides", 30>>, <<"Tutorials", 30>>>>
  ELSE IF intent = "get"
    THEN <<<<"Quickstart Guides", 20>>, <<"Tutorials", 20>>>>
  ELSE IF intent = "conceptual"
    THEN <<<<"Getting Started", 100>>, <<"Quickstart Guides", 60>>, <<"Tutorials", 50>>>>
  ELSE <<>>

lowPriorityCategories ==
  <<"Xandr Migration", "DV360 Migration", "The Trade Desk Migration",
    "Beeswax Migration", "Healthcare", "Political">>

BaseScore == 100
QuickstartBoost == 100
TutorialBoost == 60
SpecialisedPenalty == 30
LowPriorityPenalty == 50
SectionBoost == 20

\* mutant of intentScore: the low-priority demotion is applied whatever
\* specialCategory is
intentScore_AlwaysDemote(hit, queryIntent) ==
  LET category == hit.category
      url == hit.url
      title == toLowerCase(hit.title)
      \* priorityBoosts[category], 0 when the category has no entry
      priorityBoosts == categoryPriority(queryIntent.intent)
      entry == Least({k \in 1..Len(priorityBoosts) : priorityBoosts[k][1] = category})
      isLowPriority ==
        \E c \in 1..Len(lowPriorityCategories) :
          \/ includes(category, lowPriorityCategories[c])
          \/ includes(url, "/migration-guides/")
          \/ includes(url, "/healthcare-vertical/")
          \/ includes(url, "/political-vertical/")
  IN BaseScore
     + (IF entry # 0 THEN priorityBoosts[entry][2] ELSE 0)
     + (IF queryIntent.intent = "create"
          THEN IF includes(url, "/quickstart-guides/") THEN QuickstartBoost
               ELSE IF includes(url, "/tutorials/") THEN TutorialBoost
               ELSE 0
          ELSE 0)
     - (IF \/ includes(title, "pg ")
           \/ includes(url, "-pg-")
           \/ includes(title, "programmatic guaranteed")
          THEN SpecialisedPenalty ELSE 0)
     - (IF isLowPriority THEN LowPriorityPenalty ELSE 0)
     + (IF hit.anchor # "" /\ hit.type = "lvl3" THEN SectionBoost ELSE 0)

\* the score rerankResults gives a hit
intentScore(hit, queryIntent) ==
  LET category == hit.category
      url == hit.url
      title == toLowerCase(hit.title)
      \* priorityBoosts[category], 0 when the category has no entry
      priorityBoosts == categoryPriority(queryIntent.intent)
      entry == Least({k \in 1..Len(priorityBoosts) : priorityBoosts[k][1] = category})
      isLowPriority ==
        \E c \in 1..Len(lowPriorityCategories) :
          \/ includes(category, lowPriorityCategories[c])
          \/ includes(url, "/migration-guides/")
          \/ includes(url, "/healthcare-vertical/")
          \/ includes(url, "/political-vertical/")
  IN BaseScore
     + (IF entry # 0 THEN priorityBoosts[entry][2] ELSE 0)
     + (IF queryIntent.intent = "create"
          THEN IF includes(url, "/quickstart-guides/") THEN QuickstartBoost
               ELSE IF includes(url, "/tutorials/") THEN TutorialBoost
               ELSE 0
          ELSE 0)
     - (IF \/ includes(title, "pg ")
           \/ includes(url, "-pg-")
           \/ includes(title, "programmatic guaranteed")
          THEN SpecialisedPenalty ELSE 0)
     - (IF ~queryIntent.specialCategory /\ isLowPriority THEN LowPriorityPenalty ELSE 0)
     + (IF hit.anchor # "" /\ hit.type = "lvl3" THEN SectionBoost ELSE 0)

\* the place of hit among the sorted hits: sort((a, b) => b._intentScore -
\* a._intentScore) is stable, so a hit goes behind the hits that score as much
\* mutant of insertByScore: a hit goes ahead of the hits that score as much
RECURSIVE insertByScore_BeforeEqual(_, _)
insertByScore_BeforeEqual(sorted, hit) ==
  IF Len(sorted) = 0 THEN <<hit>>
  ELSE IF hit.intentScore >= Head(sorted).intentScore THEN <<hit>> \o sorted
  ELSE <<Head(sorted)>> \o insertByScore_BeforeEqual(Tail(sorted), hit)

RECURSIVE insertByScore(_, _)
insertByScore(sorted, hit) ==
  IF Len(sorted) = 0 THEN <<hit>>
  ELSE IF hit.intentScore > Head(sorted).intentScore THEN <<hit>> \o sorted
  ELSE <<Head(sorted)>> \o insertByScore(Tail(sorted), hit)

RECURSIVE sortByScore(_)
sortByScore(hits) ==
  IF Len(hits) = 0 THEN <<>>
  ELSE insertByScore(sortByScore(SubSeq(hits, 1, Len(hits) - 1)), hits[Len(hits)])

rerankResults(hits, queryIntent) ==
  IF Len(hits) = 0 THEN hits
  ELSE sortByScore([i \in 1..Len(hits) |->
         \* { ...hit, _intentScore: score }
         [title |-> hits[i].title, section |-> hits[i].section,
          displayCategory |-> hits[i].displayCategory, category |-> hits[i].category,
          url |-> hits[i].url, content |-> hits[i].content, anchor |-> hits[i].anchor,
          type |-> hits[i].type, lvl1 |-> hits[i].lvl1,
          intentScore |-> intentScore(hits[i], queryIntent)]])

---------------------------------------------------------------------------
(* Response Composer: AIService.stripMarkdownLinks and                      *)
(* AIService.combineResponseWithLinks.                                     *)
(*                                                                         *)
(* Each regular expression is modelled by the set of places where it       *)
(* matches: "XAt(s, i)" says that the expression matches s starting at     *)
(* character i, for some way of splitting s among its parts (which is what *)
(* backtracking finds).  replace() takes the leftmost such i.              *)

\* the pin U+1F4CD of the "Recommended" line, written as an ASCII stand-in
Pin == "@"

IsLetter(c) == IsUpper(c) \/ IsLower(c)

\* s.replace(re, repl) for an expression that ends in $ (one match at most,
\* the leftmost): starts is the set of places where the expression matches
ReplaceTail(s, starts, repl) ==
  IF starts = {} THEN s ELSE SubSeq(s, 1, Least(starts) - 1) \o repl

\* /\[([^\]]+)\]\([^)]+\)/ at place i: ends at LinkEnd, $1 is LinkText and the
\* text between the parentheses LinkUrl
LinkClose(s, i) == NextChar(s, i + 1, "]")
LinkEnd(s, i) == NextChar(s, LinkClose(s, i) + 2, ")")
LinkAt(s, i) ==
  /\ SubSeq(s, i, i) = "["
  /\ LinkClose(s, i) >= i + 2
  /\ LinkClose(s, i) <= Len(s)
  /\ CharAt(s, LinkClose(s, i) + 1) = "("
  /\ LinkEnd(s, i) >= LinkClose(s, i) + 3
  /\ LinkEnd(s, i) <= Len(s)
LinkText(s, i) == SubSeq(s, i + 1, LinkClose(s, i) - 1)
LinkUrl(s, i) == SubSeq(s, LinkClose(s, i) + 2, LinkEnd(s, i) - 1)

\* cleaned.replace(/\[([^\]]+)\]\([^)]+\)/g, '$1'), from place i on: one
\* pass from left to right, the replacement text is not scanned again
RECURSIVE ReplaceLinks(_, _)
ReplaceLinks(s, i) ==
  LET m == Least({j \in i..Len(s) : LinkAt(s, j)})
  IN IF m = 0 THEN SubSeq(s, i, Len(s))
     ELSE SubSeq(s, i, m - 1) \o LinkText(s, m) \o ReplaceLinks(s, LinkEnd(s, m) + 1)

\* /\s*\[[^\]]+\]\s*\([^)]*\)\s*$/
BracketParenTailAt(s, i) ==
  \E p \in i..Len(s) :
    /\ AllChars(s, i, p - 1, Spaces)
    /\ SubSeq(s, p, p) = "["
    /\ LET q == NextChar(s, p + 1, "]")
       IN /\ q >= p + 2
          /\ q <= Len(s)
          /\ \E o \in (q + 1)..Len(s) :
               /\ AllChars(s, q + 1, o - 1, Spaces)
               /\ SubSeq(s, o, o) = "("
               /\ LET c == NextChar(s, o + 1, ")")
                  IN c <= Len(s) /\ AllChars(s, c + 1, Len(s), Spaces)

\* /\s*\([^)]*(?:refer|see|...|guide)[^)]*\)\s*$/i
ReferenceParenTailAt(s, i) ==
  \E p \in i..Len(s) :
    /\ AllChars(s, i, p - 1, Spaces)
    /\ SubSeq(s, p, p) = "("
    /\ LET c == NextChar(s, p + 1, ")")
       IN /\ c <= Len(s)
          /\ AllChars(s, c + 1, Len(s), Spaces)
          /\ \E word \in {"refer", "see", "check", "visit", "read", "more",
                           "documentation", "api", "guide"} :
               includes(toLowerCase(SubSeq(s, p + 1, c - 1)), word)

\* the most characters [^)]{0,30} takes
MaxLabelLength == 30

\* /\s*\([A-Z][^)]{0,30}\)\s*$/
TitleParenTailAt(s, i) ==
  \E p \in i..Len(s) :
    /\ AllChars(s, i, p - 1, Spaces)
    /\ SubSeq(s, p, p) = "("
    /\ IsUpper(CharAt(s, p + 1))
    /\ LET c == NextChar(s, p + 2, ")")
       IN /\ c <= Len(s)
          /\ c - (p + 2) <= MaxLabelLength
          /\ AllChars(s, c + 1, Len(s), Spaces)

\* /\s*\[[^\]]+\]\s*$/i
BracketTailAt(s, i) ==
  \E p \in i..Len(s) :
    /\ AllChars(s, i, p - 1, Spaces)
    /\ SubSeq(s, p, p) = "["
    /\ LET q == NextChar(s, p + 1, "]")
       IN /\ q >= p + 2
          /\ q <= Len(s)
          /\ AllChars(s, q + 1, Len(s), Spaces)

\* /\.\s*(?:For more|See the|...|Learn more)[^.]*\.?\s*$/i
ReferenceSentenceAt(s, i) ==
  /\ SubSeq(s, i, i) = "."
  /\ \E p \in (i + 1)..Len(s) :
       /\ AllChars(s, i + 1, p - 1, Spaces)
       /\ \E phrase \in {"for more", "see the", "refer to", "check out", "visit",
                          "read the", "please refer", "learn more"} :
            /\ WordAtCI(s, p, phrase)
            \* [^.]*\.?\s*$: no dot at all, or one dot followed by white space
            /\ LET d == NextChar(s, p + Len(phrase), ".")
               IN d > Len(s) \/ AllChars(s, d + 1, Len(s), Spaces)

\* /\s+(?:Learn more|Read more|See more|Find out more)\.?\s*$/i
LearnMoreTailAt(s, i) ==
  /\ IsSpace(SubSeq(s, i, i))
  /\ \E p \in (i + 1)..Len(s) :
       /\ AllChars(s, i, p - 1, Spaces)
       /\ \E phrase \in {"learn more", "read more", "see more", "find out more"} :
            /\ WordAtCI(s, p, phrase)
            /\ LET e == p + Len(phrase)
               IN \/ AllChars(s, e, Len(s), Spaces)
                  \/ CharAt(s, e) = "." /\ AllChars(s, e + 1, Len(s), Spaces)

\* /\.\s*[A-Z][A-Za-z\s]+(?:Quickstart|Guide|...|Center)\s*$/i
\* (with the i flag [A-Z] is any letter)
TitleFragmentAt(s, i) ==
  /\ SubSeq(s, i, i) = "."
  /\ \E p \in (i + 1)..Len(s) :
       /\ AllChars(s, i + 1, p - 1, Spaces)
       /\ IsLetter(SubSeq(s, p, p))
       /\ \E k \in (p + 2)..Len(s) :
            /\ AllChars(s, p + 1, k - 1, CharsOf(UpperAlpha) \cup CharsOf(LowerAlpha) \cup Spaces)
            /\ \E word \in {"quickstart", "guide", "tutorial", "documentation", "api",
                             "overview", "article", "help", "center"} :
                 /\ WordAtCI(s, k, word)
                 /\ AllChars(s, k + Len(word), Len(s), Spaces)

\* the most capitalised words that follow the first: {0,2}
MaxMoreWords == 2

\* [A-Z][a-z]+(?:\s+[A-Z][a-z]+){0,more}\s*$ at place a
RECURSIVE CapitalisedWordsAt(_, _, _)
CapitalisedWordsAt(s, a, more) ==
  \E b \in (a + 1)..Len(s) :
    /\ IsUpper(SubSeq(s, a, a))
    /\ AllChars(s, a + 1, b, CharsOf(LowerAlpha))
    /\ \/ AllChars(s, b + 1, Len(s), Spaces)
       \/ /\ more >= 1
          /\ \E a2 \in (b + 2)..Len(s) :
               /\ AllChars(s, b + 1, a2 - 1, Spaces)
               /\ CapitalisedWordsAt(s, a2, more - 1)

\* /\.\s*[A-Z][a-z]+(?:\s+[A-Z][a-z]+){0,2}\s*$/
OrphanPhraseAt(s, i) ==
  /\ SubSeq(s, i, i) = "."
  /\ \E p \in (i + 1)..Len(s) :
       /\ AllChars(s, i + 1, p - 1, Spaces)
       /\ CapitalisedWordsAt(s, p, MaxMoreWords)

\* cleaned.replace(/\.{2,}/g, '.') on s[lo..hi]: a dot that follows a dot is
\* dropped
RECURSIVE CollapseDots(_, _, _)
CollapseDots(s, lo, hi) ==
  IF lo > hi THEN ""
  ELSE IF lo = hi
    THEN IF SubSeq(s, lo, lo) = "." /\ CharAt(s, lo - 1) = "." THEN "" ELSE SubSeq(s, lo, lo)
  ELSE LET mid == (lo + hi) \div 2
       IN CollapseDots(s, lo, mid) \o CollapseDots(s, mid + 1, hi)

\* the last character of the line that holds place p
EndOfLine(s, p) == NextChar(s, p, "\n") - 1

\* /\n*<pin>\s*\*?\*?Recommended:?\*?\*?[^\n]*/i at place i: the place of the
\* word "Recommended" of the match, 0 when there is no match
RecommendedAt(s, i) ==
  LET p == Least({k \in i..Len(s) : SubSeq(s, k, k) # "\n"})
  IN IF p # 0 /\ SubSeq(s, p, p) = Pin
       THEN \* \s*\*?\*?Recommended after the pin
            Least({w \in (p + 1)..Len(s) :
                     /\ WordAtCI(s, w, "recommended")
                     /\ \E t \in (p + 1)..w :
                          /\ AllChars(s, p + 1, t - 1, Spaces)
                          /\ w - t <= 2
                          /\ AllChars(s, t, w - 1, {"*"})})
       ELSE 0

\* cleaned.replace(/\n*<pin>...Recommended...[^\n]*/gi, ''), from place i on
RECURSIVE RemoveRecommended(_, _)
RemoveRecommended(s, i) ==
  LET m == Least({j \in i..Len(s) : RecommendedAt(s, j) # 0})
  IN IF m = 0 THEN SubSeq(s, i, Len(s))
     ELSE SubSeq(s, i, m - 1) \o RemoveRecommended(s, EndOfLine(s, RecommendedAt(s, m)) + 1)

\* /\n*\*?\*?Related resources:?\*?\*?[\s\S]*$/i
RelatedResourcesAt(s, i) ==
  \E t \in i..Len(s) :
    /\ AllChars(s, i, t - 1, {"\n"})
    /\ \E w \in t..(t + 2) :
         /\ AllChars(s, t, w - 1, {"*"})
         /\ WordAtCI(s, w, "related resources")

\* /\n+[<bullet>\-\*]\s+[A-Z][^.\n]*(?:API|Guide|Tutorial|Quickstart)[^\n]*/ at
\* place i: the place of the upper-case letter of the match, 0 when there is
\* no match
ResourceBulletAt(s, i) ==
  LET b == Least({k \in i..Len(s) : SubSeq(s, k, k) # "\n"})
      u == Least({k \in (b + 1)..Len(s) : ~IsSpace(SubSeq(s, k, k))})
  IN IF /\ SubSeq(s, i, i) = "\n"
        /\ b # 0
        /\ SubSeq(s, b, b) \in {Bullet, "-", "*"}
        /\ u >= b + 2
        /\ IsUpper(SubSeq(s, u, u))
        /\ \E k \in (u + 1)..Len(s) :
             /\ \A j \in (u + 1)..(k - 1) : SubSeq(s, j, j) \notin {".", "\n"}
             /\ \E word \in {"API", "Guide", "Tutorial", "Quickstart"} : WordAt(s, k, word)
       THEN u
       ELSE 0

\* cleaned.replace(/\n+[<bullet>\-\*]\s+[A-Z]...[^\n]*/g, ''), from place i on
RECURSIVE RemoveResourceBullets(_, _)
RemoveResourceBullets(s, i) ==
  LET m == Least({j \in i..Len(s) : ResourceBulletAt(s, j) # 0})
  IN IF m = 0 THEN SubSeq(s, i, Len(s))
     ELSE SubSeq(s, i, m - 1)
          \o RemoveResourceBullets(s, EndOfLine(s, ResourceBulletAt(s, m)) + 1)

stripMarkdownLinks(text) ==
  LET replace(s, At(_, _), repl) == ReplaceTail(s, {i \in 1..Len(s) : At(s, i)}, repl)
      dots(s) == CollapseDots(s, 1, Len(s))
      markdown == ReplaceLinks(text, 1)
      bracketParen == replace(markdown, BracketParenTailAt, "")
      referenceParen == replace(bracketParen, ReferenceParenTailAt, "")
      titleParen == replace(referenceParen, TitleParenTailAt, "")
      bracket == replace(titleParen, BracketTailAt, "")
      sentence == replace(bracket, ReferenceSentenceAt, ".")
      learnMore == replace(sentence, LearnMoreTailAt, "")
      fragment == replace(learnMore, TitleFragmentAt, ".")
      orphan == replace(fragment, OrphanPhraseAt, ".")
      periods == trim(dots(orphan))
      recommended == RemoveRecommended(periods, 1)
      resources == replace(recommended, RelatedResourcesAt, "")
      bullets == RemoveResourceBullets(resources, 1)
  IN trim(bullets)

\* the "[title](url)" of a link
MarkdownLink(title, url) == "[" \o title \o "](" \o url \o ")"

\* links.related[category].forEach(link => ...), from entry k on
RECURSIVE BulletLines(_, _)
BulletLines(entries, k) ==
  IF k > Len(entries) THEN ""
  ELSE "\n" \o Bullet \o " " \o MarkdownLink(entries[k].title, entries[k].url)
       \o BulletLines(entries, k + 1)

\* categories.forEach(category => ...), from bucket k on
RECURSIVE CategoryLines(_, _)
CategoryLines(related, k) ==
  IF k > Len(related) THEN ""
  ELSE "\n\n**" \o related[k].label \o "**" \o BulletLines(related[k].entries, 1)
       \o CategoryLines(related, k + 1)

combineResponseWithLinks(prose, links) ==
  trim(prose)
  \o (IF Len(links.primary) > 0
        THEN "\n\n" \o Pin \o " **Recommended:** "
             \o MarkdownLink(links.primary[1].title, links.primary[1].url)
        ELSE "")
  \o (IF Len(links.related) > 0
        THEN "\n\n**Related resources:**" \o CategoryLines(links.related, 1)
        ELSE "")

---------------------------------------------------------------------------
(* Generation Gateway: AIService.formatAlgoliaContext,                     *)
(* AIService.buildMistralPrompt and AIService.callLlamaServer.             *)
(*                                                                         *)
(* The context of a request is the record of its currentPage, pageTitle,   *)
(* headings and conversationHistory; a field the caller left out is "" or  *)
(* <<>>.                                                                   *)

\* this.systemPrompt: its first line, the rest of the text plays no part
systemPrompt ==
  "You are a concise AI assistant for IQM's programmatic advertising API documentation."

\* the longest preview of the top hit: content.substring(0, 300)
MaxPreviewLength == 300

\* s.replace(/\n/g, ' ')
RECURSIVE newlinesToSpaces(_)
newlinesToSpaces(s) ==
  IF Len(s) = 0 THEN ""
  ELSE IF Len(s) = 1 THEN (IF s = "\n" THEN " " ELSE s)
  ELSE LET mid == Len(s) \div 2
       IN newlinesToSpaces(SubSeq(s, 1, mid)) \o newlinesToSpaces(SubSeq(s, mid + 1, Len(s)))

\* formatAlgoliaContext(results, queryIntent) for results.hits = hits; "" is null
formatAlgoliaContext(hits) ==
  IF Len(hits) = 0 THEN ""
  ELSE LET topHit == hits[1]
           isQuickstart == includes(topHit.url, "/quickstart-guides/")
           isTutorial == includes(topHit.url, "/tutorials/")
           isGuidelines == includes(topHit.url, "/guidelines/")
           preview == trim(newlinesToSpaces(
                        SubSeq(topHit.content, 1,
                               IF Len(topHit.content) < MaxPreviewLength
                                 THEN Len(topHit.content) ELSE MaxPreviewLength)))
       IN "\n\nDOCUMENTATION CONTEXT (for your knowledge, do NOT mention URLs or link labels):"
          \o (IF isQuickstart \/ isTutorial
                THEN "\n- A step-by-step "
                     \o (IF isQuickstart THEN "quickstart" ELSE "tutorial")
                     \o " exists for this topic"
                     \o "\n- It covers: authentication, setup, and implementation"
              ELSE IF isGuidelines
                THEN "\n- Detailed API documentation exists for this topic"
                     \o "\n- It includes: endpoints, parameters, request/response examples"
              ELSE "")
          \o (IF topHit.content # "" /\ preview # ""
                THEN "\n- Key info: " \o preview
                ELSE "")
          \o "\n\nWrite a brief 2-3 sentence answer. Links will be added automatically below your response."

\* the headings the prompt lists: context.headings.slice(0, 5)
MaxHeadings == 5

\* the messages of the conversation the prompt keeps:
\* context.conversationHistory.slice(-4)
MaxHistory == 4

\* for (const msg of recentHistory) ..., from message k of the history on
RECURSIVE HistoryLines(_, _)
HistoryLines(history, k) ==
  IF k > Len(history) THEN ""
  ELSE (IF history[k].role = "user" THEN "\nUser: " ELSE "\nAssistant: ")
       \o history[k].content \o HistoryLines(history, k + 1)

\* buildMistralPrompt(systemPrompt, userMessage, context) for a context with
\* the given algoliaContext
buildMistralPrompt(system, userMessage, context, algoliaContext) ==
  "<s>[INST] " \o system
  \o (IF algoliaContext # ""
        THEN algoliaContext
             \o "\n\nIMPORTANT: Answer based on the BEST MATCH above. Link to that URL. Do not make up endpoints."
        ELSE "")
  \o (IF context.currentPage # "" \/ context.pageTitle # ""
        THEN "\n\nContext: The user is viewing \""
             \o (IF context.pageTitle # "" THEN context.pageTitle ELSE context.currentPage)
             \o "\"."
             \o (IF Len(context.headings) > 0
                   THEN " Page sections: "
                        \o join(SubSeq(context.headings, 1,
                                       IF Len(context.headings) < MaxHeadings
                                         THEN Len(context.headings) ELSE MaxHeadings), ", ")
                        \o "."
                   ELSE "")
        ELSE "")
  \o (IF Len(context.conversationHistory) > 0
        THEN "\n\nRecent conversation:"
             \o HistoryLines(context.conversationHistory,
                             IF Len(context.conversationHistory) > MaxHistory
                               THEN Len(context.conversationHistory) - MaxHistory + 1
                               ELSE 1)
        ELSE "")
  \o "\n\n" \o userMessage \o " [/INST]"

\* the ways the call of the llama server ends other than by the timer: "ok" is
\* a success status with a JSON payload whose content is a string or missing,
\* "status" a non-success status (response.ok false), "unreadable" a payload
\* response.json() rejects, "network" a fetch that rejects, "badcontent" a
\* payload whose content is not a string (content.trim is not a function)
LlamaFailures == {"status", "unreadable", "network", "badcontent"}

\* callLlamaServer throws on this reply
llamaThrows_StatusIgnored(reply) == reply.kind \in LlamaFailures \ {"status"}

\* mutant of llamaThrows: every reply is taken for a failure
llamaThrows_Always(reply) == TRUE

llamaThrows(reply) == reply.kind \in LlamaFailures

\* the value callLlamaServer returns on a reply it accepts
llamaResult(reply) ==
  [response |-> trim(IF reply.content # "" THEN reply.content ELSE "No response generated."),
   model |-> IF reply.model # "" THEN reply.model ELSE "mistral-7b-local"]

---------------------------------------------------------------------------
(* Chat pipeline: chatRouter.post('/chat') and AIService.chat              *)

\* the longest message the route accepts: message.length > 2000
MaxMessageLength == 2000

\* the hits chat keeps after reranking: algoliaResults.hits.slice(0, 6)
TopHits == 6

\* mutant of Accepted: a message of exactly 2000 characters is rejected too
Accepted_Below(message) ==
  /\ message.type = "string"
  /\ message.value # ""
  /\ Len(message.value) < MaxMessageLength

\* req.body.message is a record of its typeof and its text; the route goes on
\* to chat for a non-empty string of at most 2000 characters (!message is true
\* of undefined, of null, of the number 0 and of '', typeof message is
\* 'string' of none of them but '')
Accepted(message) ==
  /\ message.type = "string"
  /\ message.value # ""
  /\ Len(message.value) <= MaxMessageLength

\* the hits AlgoliaService.search returns for a reply of the index: a reply of
\* kind "hits" is a payload whose hits are all well formed, "malformed" a
\* payload that makes results.hits.map(...) throw (hits missing, or a hit that
\* is null beside the hits listed), "error" a request the client rejects
searchResult_KeepMalformed(reply) ==
  [i \in 1..Len(reply.hits) |-> transformHit(reply.hits[i])]

searchResult(reply) ==
  IF reply.kind = "hits"
    THEN [i \in 1..Len(reply.hits) |-> transformHit(reply.hits[i])]
    ELSE <<>>

\* chat, lines 324-330: rerank the hits found and keep the first six
topResults(found, queryIntent) ==
  IF Len(found) > 0
    THEN LET ranked == rerankResults(found, queryIntent)
         IN SubSeq(ranked, 1, IF Len(ranked) < TopHits THEN Len(ranked) ELSE TopHits)
    ELSE found

\* chat, lines 346-374: the value returned when callLlamaServer returned
chatResponse(topHits, queryIntent, reply) ==
  LET answer == llamaResult(reply)
      structuredLinks == buildStructuredLinks(topHits)
      text == combineResponseWithLinks(stripMarkdownLinks(answer.response), structuredLinks)
  IN IF Len(topHits) > 0
       THEN [response |-> text,
             model |-> answer.model,
             actions |-> <<navigateAction(topHits[1].url)>>,
             queryIntent |-> queryIntent,
             links |-> structuredLinks,
             searchResults |-> topHits]
       ELSE [response |-> text,
             model |-> answer.model,
             queryIntent |-> queryIntent,
             links |-> structuredLinks]

\* chat, lines 346-378: the value returned for a reply of the llama server
chatResult(message, topHits, reply) ==
  IF llamaThrows(reply)
    THEN generateFallbackResponse(message)
    ELSE chatResponse(topHits, detectQueryIntent(message), reply)

---------------------------------------------------------------------------
(* Inputs of the chat pipeline: requests, replies of the index and of the  *)
(* llama server                                                            *)

noContext ==
  [currentPage |-> "", pageTitle |-> "", headings |-> <<>>, conversationHistory |-> <<>>]

pageContext ==
  [currentPage |-> "/guidelines/campaign-api/",
   pageTitle |-> "Campaign API",
   headings |-> <<"Update Campaign">>,
   conversationHistory |-> <<[role |-> "user", content |-> "hi"],
                             [role |-> "assistant", content |-> "Hello"]>>]

\* s repeated n times
RECURSIVE Repeat(_, _)
Repeat(s, n) ==
  IF n = 0 THEN ""
  ELSE LET half == Repeat(s, n \div 2)
       IN half \o half \o (IF n % 2 = 1 THEN s ELSE "")

\* text followed by the letter a up to a length of n
Padded(text, n) == text \o Repeat("a", n - Len(text))

StringMessage(text) == [type |-> "string", value |-> text]

Requests ==
  {[message |-> StringMessage("create campaign"), context |-> noContext],
   [message |-> StringMessage("update campaign status"), context |-> pageContext],
   [message |-> StringMessage("what is pld"), context |-> noContext],
   [message |-> StringMessage("Login"), context |-> noContext],
   [message |-> StringMessage("hello there"), context |-> pageContext],
   [message |-> StringMessage(""), context |-> noContext],
   [message |-> StringMessage("0"), context |-> noContext],
   [message |-> StringMessage(Padded("login ", MaxMessageLength)), context |-> noContext],
   [message |-> StringMessage(Repeat("a", MaxMessageLength + 1)), context |-> noContext],
   [message |-> [type |-> "undefined", value |-> ""], context |-> noContext],
   [message |-> [type |-> "number", value |-> "42"], context |-> noContext]}

RawHit(url, anchor, type, lvl0, lvl1, lvl2, content) ==
  [url |-> url, anchor |-> anchor, type |-> type, category |-> "",
   lvl0 |-> lvl0, lvl1 |-> lvl1, lvl2 |-> lvl2, content |-> content, highlight |-> ""]

RawPool ==
  <<RawHit("https://developers.iqm.com/docs/quickstart-guides/create-a-campaign-quickstart/",
           "", "lvl1", "Quickstart Guides", "Create a Campaign", "",
           "Create a campaign\nin four steps."),
    RawHit("https://developers.iqm.com/docs/guidelines/campaign-api/",
           "update-campaign", "lvl3", "Guidelines", "Campaign API", "Update Campaign",
           "PATCH /api/v3/cmp/campaign"),
    RawHit("/docs/migration-guides/xandr/", "", "lvl2", "Xandr Migration",
           "Migrate from Xandr", "", "")>>

\* the most hits of a reply built from the pool
MaxRawHits == 2

\* the lists of hits tried: the lists of at most MaxRawHits hits of the pool,
\* and one list with more hits than chat keeps, a getting-started page ahead
\* of the quickstart among them
RawHitLists ==
  UNION {{[i \in 1..n |-> RawPool[f[i]]] : f \in [1..n -> 1..Len(RawPool)]} : n \in 0..MaxRawHits}
  \cup {RawPool \o <<RawPool[2],
                     RawHit("https://developers.iqm.com/docs/getting-started/before-you-begin/",
                            "", "lvl1", "Getting Started", "Before You Begin", "",
                            "Sign up and get an API token.")>>
               \o RawPool}

SearchReplies ==
  {[kind |-> "hits", hits |-> l] : l \in RawHitLists}
  \cup {[kind |-> "malformed", hits |-> l] : l \in {<<>>, <<RawPool[1]>>}}
  \cup {[kind |-> "error", hits |-> <<>>]}

\* texts of the generator
GenTexts ==
  {"",
   " Use the Campaign API to update a campaign.\n",
   "See the [Campaign API](http://docs.example/campaign) page.",
   "Use [the [Campaign API](/a)](http://x.example) now",
   "Call PATCH. (see Campaign API)",
   "It works. Learn more",
   "Done.\n\n@ **Recommended:** [here](/x)\n- Campaign API Guide"}

LlamaReplies ==
  {[kind |-> "ok", content |-> t, model |-> m] : t \in GenTexts, m \in {"", "mistral"}}
  \cup {[kind |-> k, content |-> "", model |-> ""] : k \in LlamaFailures}

---------------------------------------------------------------------------
(* Inputs of the reranker: lists of transformed hits and query intents     *)

\* the most hits in a list given to rerankResults
MaxRerankHits == 3

\* a hit of the index that has the custom category attribute
WithCategory(hit, category) == [hit EXCEPT !.category = category]

\* the hits of the index tried: the pages of the chat replies, a tutorial on
\* PG campaigns, a getting-started page, a page of the political vertical,
\* and pages to which the index gives a category of its own (the display
\* label of the section, or 'Healthcare' for a page outside of the vertical)
RerankPool ==
  RawPool \o
  <<RawHit("https://developers.iqm.com/docs/tutorials/create-a-pg-campaign/", "", "lvl1",
           "Tutorials", "Create a PG Campaign", "", "Programmatic guaranteed."),
    RawHit("https://developers.iqm.com/docs/getting-started/before-you-begin/", "", "lvl1",
           "Getting Started", "Before You Begin", "", "Sign up."),
    RawHit("/docs/political-vertical/", "", "lvl1", "Political", "Political Advertising", "",
           ""),
    WithCategory(RawHit("/docs/tutorials/deal-guide/", "", "lvl1", "Tutorials", "Deal Guide",
                        "", ""), "Tutorials"),
    WithCategory(RawHit("/docs/getting-started/platform-overview/", "", "lvl1",
                        "Getting Started", "Platform Overview", "", ""), "Getting Started"),
    WithCategory(RawHit("/docs/guidelines/audience-api/", "healthcare-segments", "lvl3",
                        "Guidelines", "Audience API", "Healthcare Segments", ""),
                 "Healthcare")>>

\* results.hits.map(hit => this.transformHit(hit)) on the lists of at most
\* MaxRerankHits hits of the pool
RerankHitLists ==
  UNION {{[i \in 1..n |-> transformHit(RerankPool[f[i]])] : f \in [1..n -> 1..Len(RerankPool)]} :
           n \in 0..MaxRerankHits}

\* the intents detectQueryIntent gives
RerankIntents ==
  {detectQueryIntent(q) : q \in {"create campaign", "update campaign", "list campaigns",
                                  "what is a campaign", "migrate a political campaign"}}

---------------------------------------------------------------------------
(* Assistant panel of the documentation site: isValidDocPath and           *)
(* handleAgentActions of src/theme/NavbarItem/AIAssistantNavbarItem.tsx,   *)
(* navigateToPage, scrollToSection, highlightText and clearHighlights of   *)
(* src/hooks/useDocNavigator.ts.                                           *)
(*                                                                         *)
(* The browser is the record of window.location.href, of the hook's        *)
(* currentPage, currentSection (""  for null) and highlights (the terms    *)
(* highlighted) and of the component's pendingHighlights (<<>> for null).  *)
(* An agent action is the record of its tool and of its params path,       *)
(* section and terms; a param that is missing is "" or <<>>.               *)

VALID_DOC_PATHS ==
  <<"/getting-started/", "/guidelines/", "/quickstart-guides/", "/tutorials/",
    "/migration-guides/", "/political-vertical/", "/healthcare-vertical/">>

\* mutant of isValidDocPath: every path is valid
isValidDocPath_Any(path) == TRUE

isValidDocPath(path) ==
  LET startsWith(s, p) == Len(s) >= Len(p) /\ SubSeq(s, 1, Len(p)) = p
      normalized == IF startsWith(path, "/") THEN path ELSE "/" \o path
  IN \E k \in 1..Len(VALID_DOC_PATHS) : startsWith(normalized, VALID_DOC_PATHS[k])

\* window.location.href = path; dispatch({ type: 'SET_PAGE', payload: path })
navigateToPage(browser, path) ==
  [browser EXCEPT !.href = path, !.currentPage = path]

\* highlightText(terms): the highlights are cleared, and each term is added
\* when the page has a content area
highlightText(browser, terms, contentArea) ==
  [browser EXCEPT !.highlights = IF contentArea THEN terms ELSE <<>>]

\* one round of actions.forEach: acc is the record of the browser and of the
\* locals hasNavigation and highlightTerms; dom tells whether the element of a
\* section id exists
ActionStep(acc, action, dom) ==
  CASE action.tool = "navigate" ->
         IF action.path # "" /\ isValidDocPath(action.path)
           THEN [acc EXCEPT !.hasNavigation = TRUE,
                            !.browser = navigateToPage(acc.browser, action.path)]
           ELSE acc
    [] action.tool = "scroll" ->
         IF action.section # "" /\ dom.section
           THEN [acc EXCEPT !.browser.currentSection = action.section]
           ELSE acc
    [] action.tool = "highlight" -> [acc EXCEPT !.highlightTerms = action.terms]
    [] action.tool = "clear_highlights" -> [acc EXCEPT !.browser.highlights = <<>>]
    [] OTHER -> acc

\* actions.forEach(...), from action i on
RECURSIVE ActionLoop(_, _, _, _)
ActionLoop(acc, actions, i, dom) ==
  IF i > Len(actions) THEN acc
  ELSE ActionLoop(ActionStep(acc, actions[i], dom), actions, i + 1, dom)

\* the browser after handleAgentActions(actions)
handleAgentActions(browser, actions, dom) ==
  LET end == ActionLoop([browser |-> browser, hasNavigation |-> FALSE, highlightTerms |-> <<>>],
                        actions, 1, dom)
  IN IF Len(end.highlightTerms) > 0
       THEN IF end.hasNavigation
              THEN [end.browser EXCEPT !.pendingHighlights = end.highlightTerms]
              ELSE highlightText(end.browser, end.highlightTerms, dom.contentArea)
       ELSE end.browser

---------------------------------------------------------------------------
(* Inputs of the assistant panel: the actions of a reply                   *)

\* the most actions in a reply
MaxActions == 2

AgentAction(tool, path, section, terms) ==
  [tool |-> tool, path |-> path, section |-> section, terms |-> terms]

\* the actions tried: paths under a documentation prefix with and without the
\* leading slash, paths outside of the prefixes (the absolute url of a search
\* hit among them), a navigate action without a path, and the other tools
ActionPool ==
  {AgentAction("navigate", "/guidelines/campaign-api/", "", <<>>),
   AgentAction("navigate", "quickstart-guides/create-a-campaign-quickstart/", "", <<>>),
   AgentAction("navigate", "/tutorials/../admin/", "", <<>>),
   AgentAction("navigate", "/guidelines", "", <<>>),
   AgentAction("navigate", "/admin/guidelines/", "", <<>>),
   AgentAction("navigate", "//evil.example/guidelines/", "", <<>>),
   AgentAction("navigate", "https://developers.iqm.com/docs/guidelines/campaign-api/", "", <<>>),
   AgentAction("navigate", "", "", <<>>),
   AgentAction("scroll", "", "update-campaign", <<>>),
   AgentAction("highlight", "", "", <<"campaign">>),
   AgentAction("clear_highlights", "", "", <<>>),
   AgentAction("open", "/guidelines/campaign-api/", "", <<>>)}

ActionLists ==
  UNION {[1..n -> ActionPool] : n \in 0..MaxActions}

\* the browser when the reply arrives: a page of the site with a highlight
StartBrowser ==
  [href |-> "/getting-started/before-you-begin/", currentPage |-> "", currentSection |-> "",
   highlights |-> <<"token">>, pendingHighlights |-> <<>>]

---------------------------------------------------------------------------
(* Rate limiter of the API server: api-server/src/middleware/              *)
(* rateLimiter.js, mounted on /api.                                        *)
(*                                                                         *)
(* requestCounts maps an identifier to its entry [count, windowStart];     *)
(* noData is the place of an identifier that has no entry.  A request is   *)
(* the record of req.ip and of its x-forwarded-for header ("" when         *)
(* undefined).  The answer of the middleware is the record of the status   *)
(* it sent (0: it sent none), of the headers it set (pairs of name and     *)
(* value), of the JSON body it sent (a sequence of at most one record) and *)
(* of whether it called next().                                            *)

\* parseInt(process.env.RATE_LIMIT_WINDOW_MS) || 60000
WINDOW_MS == 60000

\* parseInt(process.env.RATE_LIMIT_MAX_REQUESTS) || 20
MAX_REQUESTS == 20

noData == [count |-> 0, windowStart |-> 0]

\* req.ip || req.headers['x-forwarded-for'] || 'unknown'
Identifier(req) ==
  IF req.ip # "" THEN req.ip
  ELSE IF req.forwardedFor # "" THEN req.forwardedFor
  ELSE "unknown"

\* mutant of OverLimit: the request that reaches the limit is refused too
OverLimit_AtLimit(count) == count >= MAX_REQUESTS

\* data.count > MAX_REQUESTS
OverLimit(count) == count > MAX_REQUESTS

\* rateLimiter(req, res, next) at time now: the map and the answer it leaves
\* mutant of rateLimiter: a full window is replaced by a new one
rateLimiter_RestartWhenFull(counts, req, now) ==
  LET ceil(a, b) == -((-a) \div b)
      identifier == Identifier(req)
      old == counts[identifier]
      data == IF old = noData \/ now - old.windowStart > WINDOW_MS
                   \/ old.count >= MAX_REQUESTS
                THEN [count |-> 1, windowStart |-> now]
                ELSE [old EXCEPT !.count = @ + 1]
      remaining == IF MAX_REQUESTS - data.count > 0 THEN MAX_REQUESTS - data.count ELSE 0
      headers == {<<"X-RateLimit-Limit", MAX_REQUESTS>>,
                  <<"X-RateLimit-Remaining", remaining>>,
                  <<"X-RateLimit-Reset", ceil(data.windowStart + WINDOW_MS, 1000)>>}
      refusal == [error |-> "Too many requests",
                  retryAfter |-> ceil(data.windowStart + WINDOW_MS - now, 1000)]
  IN [counts |-> [counts EXCEPT ![identifier] = data],
      answer |-> IF OverLimit(data.count)
                   THEN [status |-> 429, headers |-> headers, body |-> <<refusal>>,
                         next |-> FALSE]
                   ELSE [status |-> 0, headers |-> headers, body |-> <<>>, next |-> TRUE]]

rateLimiter(counts, req, now) ==
  LET ceil(a, b) == -((-a) \div b)
      identifier == Identifier(req)
      old == counts[identifier]
      data == IF old = noData \/ now - old.windowStart > WINDOW_MS
                THEN [count |-> 1, windowStart |-> now]
                ELSE [old EXCEPT !.count = @ + 1]
      remaining == IF MAX_REQUESTS - data.count > 0 THEN MAX_REQUESTS - data.count ELSE 0
      headers == {<<"X-RateLimit-Limit", MAX_REQUESTS>>,
                  <<"X-RateLimit-Remaining", remaining>>,
                  <<"X-RateLimit-Reset", ceil(data.windowStart + WINDOW_MS, 1000)>>}
      refusal == [error |-> "Too many requests",
                  retryAfter |-> ceil(data.windowStart + WINDOW_MS - now, 1000)]
  IN [counts |-> [counts EXCEPT ![identifier] = data],
      answer |-> IF OverLimit(data.count)
                   THEN [status |-> 429, headers |-> headers, body |-> <<refusal>>,
                         next |-> FALSE]
                   ELSE [status |-> 0, headers |-> headers, body |-> <<>>, next |-> TRUE]]

\* the callback of setInterval: the entries whose window is over are deleted
cleanup(counts, now) ==
  [id \in DOMAIN counts |->
     IF counts[id] # noData /\ now - counts[id].windowStart > WINDOW_MS
       THEN noData ELSE counts[id]]

---------------------------------------------------------------------------
(* Inputs of the rate limiter: requests and the clock                      *)

\* the requests over the limit that are tried in a window
MaxOverLimit == 2

\* the steps of the clock that are tried
MaxTicks == 2

\* two requests of one address (the second behind a proxy that leaves req.ip
\* undefined) and a request without an address
RlRequests ==
  {[ip |-> "10.0.0.1", forwardedFor |-> ""],
   [ip |-> "", forwardedFor |-> "10.0.0.1"],
   [ip |-> "", forwardedFor |-> ""]}

Identifiers == {Identifier(req) : req \in RlRequests}

noRequest == [ip |-> "", forwardedFor |-> "", handled |-> FALSE]

noAnswer == [status |-> 0, headers |-> {}, body |-> <<>>, next |-> FALSE]

---------------------------------------------------------------------------
(* Specifications.  The pure functions are applied to inputs drawn by the  *)
(* initial state; the variables of the other functions stay idle.          *)

\* no call of generateFallbackResponse under way
FbIdle ==
  /\ fbPc = "idle"
  /\ fbMessage = ""
  /\ fbResult = genericFallback

\* no call of buildStructuredLinks under way
BlIdle ==
  /\ blPc = "idle"
  /\ blHits = <<>>
  /\ blLinks = noLinks

\* no chat request under way
ChIdle ==
  /\ pc = "idle"
  /\ request = [message |-> StringMessage(""), context |-> noContext]
  /\ algolia = [initialized |-> FALSE, client |-> FALSE]
  /\ query = ""
  /\ searchEnd = ""
  /\ algoliaHits = <<>>
  /\ prompt = ""
  /\ timer = FALSE
  /\ llamaEnd = ""
  /\ calls = <<>>
  /\ status = 0
  /\ response = <<>>

\* no call of a text function under way
TxIdle ==
  /\ txPc = "idle"
  /\ txText = ""
  /\ txResult = ""

\* no call of rerankResults under way
RrIdle ==
  /\ rrPc = "idle"
  /\ rrHits = <<>>
  /\ rrIntent = [intent |-> "get", specialCategory |-> FALSE]
  /\ rrResult = <<>>

\* no reply with actions under way
ClIdle ==
  /\ clPc = "idle"
  /\ clActions = <<>>
  /\ clBrowser = StartBrowser

\* the rate limiter at the start of the server
RlIdle ==
  /\ requestCounts = [id \in Identifiers |-> noData]
  /\ rlNow = 0
  /\ rlRequest = noRequest
  /\ rlAnswer = noAnswer
  /\ rlPassed = [id \in Identifiers |-> 0]
  /\ rlLog = <<>>

FbInit ==
  /\ fbPc = "start"
  /\ fbMessage \in FbMessages
  /\ fbResult = genericFallback
  /\ BlIdle
  /\ ChIdle
  /\ TxIdle
  /\ ClIdle
  /\ RlIdle
  /\ RrIdle

FbRoute ==
  /\ fbPc = "start"
  /\ fbResult' = generateFallbackResponse(fbMessage)
  /\ fbPc' = "done"
  /\ UNCHANGED <<fbMessage, blVars, chVars, txVars, clVars, rlVars, rrVars>>

FbNext == FbRoute

SpecFallback == FbInit /\ [][FbNext]_vars

BlInit ==
  /\ blPc = "start"
  /\ blHits \in HitLists
  /\ blLinks = noLinks
  /\ FbIdle
  /\ ChIdle
  /\ TxIdle
  /\ ClIdle
  /\ RlIdle
  /\ RrIdle

BlBuild ==
  /\ blPc = "start"
  /\ blLinks' = buildStructuredLinks(blHits)
  /\ blPc' = "done"
  /\ UNCHANGED <<blHits, fbVars, chVars, txVars, clVars, rlVars, rrVars>>

BlNext == BlBuild

SpecLinks == BlInit /\ [][BlNext]_vars

\* texts of the generator that the cleanup is tried on besides GenTexts
CleanupTexts ==
  {"Done (see a) (see b)",
   "Use it. (see docs) (Campaign API)",
   "It works. Campaign Guide. Learn more",
   "Call PATCH [x] (see y)",
   "Done. Campaigns Overview. Insertion Orders",
   "A. B. See the docs",
   "Ok [a] [b]",
   "Wait... done..",
   " x ",
   "Steps:\n- Campaign API Guide\n- Other"}

\* queries of the user
Queries ==
  {"How do I create a campaign?",
   "create or update campaign",
   "update the campaign budget",
   "delete a creative",
   "list all reports",
   "what is a campaign",
   "explain bidding",
   "How do I?",
   "what is the",
   "a",
   " ",
   "?",
   "migrate and create campaign",
   "upload pld data",
   "newsletter",
   "hello there",
   "Create, then UPDATE!",
   "find inventory deals",
   "setup io",
   "I want to read about reports",
   "difference between audience and segment",
   "sign up user",
   "put",
   "creates campaigns",
   "  Show me   the Reports  ",
   "campaign audience",
   "campaign report campaign",
   "deals and campaigns for an audience"}

TxInit ==
  /\ txPc = "start"
  /\ txText \in GenTexts \cup CleanupTexts \cup Queries
  /\ txResult = ""
  /\ FbIdle
  /\ BlIdle
  /\ ChIdle
  /\ ClIdle
  /\ RlIdle
  /\ RrIdle

\* stripMarkdownLinks(text)
StripText ==
  /\ txPc = "start"
  /\ txResult' = stripMarkdownLinks(txText)
  /\ txPc' = "stripped"
  /\ UNCHANGED <<txText, fbVars, blVars, chVars, clVars, rlVars, rrVars>>

\* detectQueryIntent(message)
ClassifyQuery ==
  /\ txPc = "start"
  /\ txResult' = detectQueryIntent(txText)
  /\ txPc' = "classified"
  /\ UNCHANGED <<txText, fbVars, blVars, chVars, clVars, rlVars, rrVars>>

\* extractSearchTerms(message)
ExtractTerms ==
  /\ txPc = "start"
  /\ txResult' = extractSearchTerms(txText)
  /\ txPc' = "extracted"
  /\ UNCHANGED <<txText, fbVars, blVars, chVars, clVars, rlVars, rrVars>>

TxNext ==
  \/ StripText
  \/ ClassifyQuery
  \/ ExtractTerms

SpecText == TxInit /\ [][TxNext]_vars

---------------------------------------------------------------------------
(* The chat pipeline as a state machine.  pc is the place of the request:  *)
(* "received" (the route has the body), "search" (chat awaits the index),  *)
(* "generate" (chat awaits the llama server, the abort timer is armed),    *)
(* "done" (the route answered with the value of chat) and "rejected" (the  *)
(* route answered 400).  calls lists the collaborators called for the      *)
(* request, searchEnd and llamaEnd how their calls ended.                  *)

ChInit ==
  /\ pc = "received"
  /\ request \in Requests
  /\ algolia = [initialized |-> FALSE, client |-> FALSE]
  /\ query = ""
  /\ searchEnd = ""
  /\ algoliaHits = <<>>
  /\ prompt = ""
  /\ timer = FALSE
  /\ llamaEnd = ""
  /\ calls = <<>>
  /\ status = 0
  /\ response = <<>>
  /\ FbIdle
  /\ BlIdle
  /\ TxIdle
  /\ ClIdle
  /\ RlIdle
  /\ RrIdle

\* chatRouter.post('/chat'): the 400 answers
ChatReject ==
  /\ pc = "received"
  /\ ~Accepted(request.message)
  /\ pc' = "rejected"
  /\ status' = 400
  /\ UNCHANGED <<request, algolia, query, searchEnd, algoliaHits, prompt, timer, llamaEnd,
                 calls, response, fbVars, blVars, txVars, clVars, rlVars, rrVars>>

\* chat, lines 338-346, and callLlamaServer up to its fetch: the prompt is
\* built from the hits kept, the abort timer is armed and the request sent
StartGeneration(topHits, priorCalls) ==
  /\ algoliaHits' = topHits
  /\ prompt' = buildMistralPrompt(systemPrompt, request.message.value, request.context,
                                  formatAlgoliaContext(topHits))
  /\ timer' = TRUE
  /\ calls' = Append(priorCalls, "generate")
  /\ pc' = "generate"

\* AlgoliaService.init: algoliasearch() returns a client or throws
init(service, clientCreated) ==
  IF service.initialized THEN service
  ELSE IF clientCreated THEN [initialized |-> TRUE, client |-> TRUE]
  ELSE service

\* chatRouter.post('/chat') for a message it accepts, chat up to its first
\* await: AlgoliaService.search sends the query, or returns no algoliaHits at once
\* when there is no client
ChatSearch ==
  /\ pc = "received"
  /\ Accepted(request.message)
  /\ query' = extractSearchTerms(request.message.value)
  /\ \E clientCreated \in BOOLEAN :
       /\ algolia' = init(algolia, clientCreated)
       /\ IF algolia'.client
            THEN /\ pc' = "search"
                 /\ calls' = <<"search">>
                 /\ UNCHANGED <<searchEnd, algoliaHits, prompt, timer, rrVars>>
            ELSE /\ searchEnd' = "unavailable"
                 /\ StartGeneration(<<>>, <<>>)
  /\ UNCHANGED <<request, llamaEnd, status, response, fbVars, blVars, txVars, clVars, rlVars,
                 rrVars>>

\* the index answers: AlgoliaService.search from line 289 on, then chat, lines
\* 324-346
SearchReply ==
  /\ pc = "search"
  /\ \E reply \in SearchReplies :
       /\ searchEnd' = reply.kind
       /\ StartGeneration(topResults(searchResult(reply),
                                     detectQueryIntent(request.message.value)), calls)
  /\ UNCHANGED <<request, algolia, query, llamaEnd, status, response, fbVars, blVars, txVars,
                 clVars, rlVars, rrVars>>

\* the llama server answers before the timer fires: callLlamaServer from line
\* 733 on, then chat, lines 348-378, and res.json(response)
LlamaReply ==
  /\ pc = "generate"
  /\ \E reply \in LlamaReplies :
       /\ llamaEnd' = reply.kind
       /\ response' = chatResult(request.message.value, algoliaHits, reply)
       /\ calls' = IF llamaThrows(reply) THEN Append(calls, "fallback") ELSE calls
  /\ timer' = FALSE
  /\ pc' = "done"
  /\ status' = 200
  /\ UNCHANGED <<request, algolia, query, searchEnd, algoliaHits, prompt, fbVars, blVars,
                 txVars, clVars, rlVars, rrVars>>

\* the timer fires first: controller.abort() makes the fetch reject, and chat
\* answers with the fallback
LlamaTimeout ==
  /\ pc = "generate"
  /\ timer
  /\ llamaEnd' = "timeout"
  /\ response' = generateFallbackResponse(request.message.value)
  /\ calls' = Append(calls, "fallback")
  /\ timer' = FALSE
  /\ pc' = "done"
  /\ status' = 200
  /\ UNCHANGED <<request, algolia, query, searchEnd, algoliaHits, prompt, fbVars, blVars,
                 txVars, clVars, rlVars, rrVars>>

\* the next request reaches the route; the AlgoliaService singleton lives on
NextRequest ==
  /\ pc \in {"done", "rejected"}
  /\ pc' = "received"
  /\ request' \in Requests
  /\ query' = ""
  /\ searchEnd' = ""
  /\ algoliaHits' = <<>>
  /\ prompt' = ""
  /\ timer' = FALSE
  /\ llamaEnd' = ""
  /\ calls' = <<>>
  /\ status' = 0
  /\ response' = <<>>
  /\ UNCHANGED <<algolia, fbVars, blVars, txVars, clVars, rlVars, rrVars>>

Next ==
  \/ ChatReject
  \/ ChatSearch
  \/ SearchReply
  \/ LlamaReply
  \/ LlamaTimeout
  \/ NextRequest

Spec == ChInit /\ [][Next]_vars

\* the steps of the program and the timer of callLlamaServer are taken when
\* they can be; no reply of a collaborator is promised.  The steps of
\* ChatSearch and of LlamaTimeout are told by the guard of the action and by
\* what it does to pc and llamaEnd: no other action of Next takes such a step,
\* and the step can be taken exactly when the action can.
FairSpec ==
  /\ Spec
  /\ WF_vars(ChatReject)
  /\ WF_pc(pc = "received" /\ Accepted(request.message) /\ pc' \in {"search", "generate"})
  /\ WF_<<pc, llamaEnd>>(pc = "generate" /\ timer /\ pc' = "done" /\ llamaEnd' = "timeout")

---------------------------------------------------------------------------
(* The assistant panel as a state machine: a reply with actions arrives    *)
(* (clPc = "start"), handleAgentActions runs on it (clPc = "done"), and    *)
(* the effect on pendingHighlights applies the pending highlights later.   *)

ClInit ==
  /\ clPc = "start"
  /\ clActions \in ActionLists
  /\ clBrowser = StartBrowser
  /\ FbIdle
  /\ BlIdle
  /\ ChIdle
  /\ TxIdle
  /\ RlIdle
  /\ RrIdle

\* sendMessage: if (data.actions) handleAgentActions(data.actions)
ClHandle ==
  /\ clPc = "start"
  /\ \E dom \in [section : BOOLEAN, contentArea : BOOLEAN] :
       clBrowser' = handleAgentActions(clBrowser, clActions, dom)
  /\ clPc' = "done"
  /\ UNCHANGED <<clActions, fbVars, blVars, chVars, txVars, rlVars, rrVars>>

\* useEffect on pendingHighlights: highlightText(pendingHighlights);
\* setPendingHighlights(null)
ClApplyPending ==
  /\ clPc = "done"
  /\ Len(clBrowser.pendingHighlights) > 0
  /\ \E contentArea \in BOOLEAN :
       clBrowser' = [highlightText(clBrowser, clBrowser.pendingHighlights, contentArea)
                     EXCEPT !.pendingHighlights = <<>>]
  /\ UNCHANGED <<clPc, clActions, fbVars, blVars, chVars, txVars, rlVars, rrVars>>

ClNext ==
  \/ ClHandle
  \/ ClApplyPending

SpecClient == ClInit /\ [][ClNext]_vars

---------------------------------------------------------------------------
(* The rate limiter as a state machine.  rlNow is Date.now() in            *)
(* milliseconds since the start of the server, rlRequest the request       *)
(* handled last and rlAnswer the answer it got; rlPassed counts, for each  *)
(* identifier, the requests passed to next() since its entry was last set  *)
(* to a new window (a history variable: the program does not keep it).     *)

RlInit ==
  /\ RlIdle
  /\ FbIdle
  /\ BlIdle
  /\ ChIdle
  /\ TxIdle
  /\ ClIdle
  /\ RrIdle

\* app.use('/api', rateLimiter): a request arrives
RlRequest ==
  \E req \in RlRequests :
    LET id == Identifier(req)
        result == rateLimiter(requestCounts, req, rlNow)
    IN /\ requestCounts[id].count < MAX_REQUESTS + MaxOverLimit
       /\ requestCounts' = result.counts
       /\ rlAnswer' = result.answer
       /\ rlRequest' = [ip |-> req.ip, forwardedFor |-> req.forwardedFor, handled |-> TRUE]
       /\ rlPassed' = [rlPassed EXCEPT ![id] =
                         IF ~result.answer.next THEN @
                         ELSE IF result.counts[id].windowStart # requestCounts[id].windowStart
                                 \/ requestCounts[id] = noData
                           THEN 1
                           ELSE @ + 1]
       /\ UNCHANGED <<rlNow, rlLog, fbVars, blVars, chVars, txVars, clVars, rrVars>>

\* the callback of setInterval(..., WINDOW_MS)
RlCleanup ==
  /\ requestCounts' = cleanup(requestCounts, rlNow)
  /\ UNCHANGED <<rlNow, rlRequest, rlAnswer, rlPassed, rlLog, fbVars, blVars, chVars, txVars,
                 clVars, rrVars>>

\* time passes: half a window, or a millisecond more
RlTick ==
  /\ \E d \in {WINDOW_MS \div 2, WINDOW_MS \div 2 + 1} : rlNow' = rlNow + d
  /\ rlNow' <= MaxTicks * (WINDOW_MS \div 2 + 1)
  /\ UNCHANGED <<requestCounts, rlRequest, rlAnswer, rlPassed, rlLog, fbVars, blVars, chVars,
                 txVars, clVars, rrVars>>

RlNext ==
  \/ RlRequest
  \/ RlCleanup
  \/ RlTick

SpecRateLimit == RlInit /\ [][RlNext]_vars

\* The requests of one client over the edges of its windows.  rlLog keeps the
\* identifier and the time of every request passed to next() (a history
\* variable: the program does not keep it).

\* the requests of the client
RwRequests == {[ip |-> "10.0.0.1", forwardedFor |-> ""]}

RwInit == RlInit

\* app.use('/api', rateLimiter): a request of the client arrives
RwRequest ==
  \E req \in RwRequests :
    LET id == Identifier(req)
        result == rateLimiter(requestCounts, req, rlNow)
    IN /\ requestCounts[id].count < MAX_REQUESTS + MaxOverLimit
       /\ requestCounts' = result.counts
       /\ rlAnswer' = result.answer
       /\ rlRequest' = [ip |-> req.ip, forwardedFor |-> req.forwardedFor, handled |-> TRUE]
       /\ rlPassed' = [rlPassed EXCEPT ![id] =
                         IF ~result.answer.next THEN @
                         ELSE IF result.counts[id].windowStart # requestCounts[id].windowStart
                                 \/ requestCounts[id] = noData
                           THEN 1
                           ELSE @ + 1]
       /\ rlLog' = IF result.answer.next THEN Append(rlLog, [id |-> id, time |-> rlNow])
                   ELSE rlLog
       /\ UNCHANGED <<rlNow, fbVars, blVars, chVars, txVars, clVars, rrVars>>

\* the readings of Date.now(): the start of the server, the last millisecond
\* of the window that starts there, and the first millisecond after that
\* window and after the next one
RwTimes == {0, WINDOW_MS, WINDOW_MS + 1, 2 * WINDOW_MS + 2}

\* time passes, to the next reading
RwTick ==
  /\ \E t \in RwTimes :
       /\ t > rlNow
       /\ \A u \in RwTimes : u > rlNow => t <= u
       /\ rlNow' = t
  /\ UNCHANGED <<requestCounts, rlRequest, rlAnswer, rlPassed, rlLog, fbVars, blVars, chVars,
                 txVars, clVars, rrVars>>

RwNext ==
  \/ RwRequest
  \/ RlCleanup
  \/ RwTick

SpecRateWindow == RwInit /\ [][RwNext]_vars

---------------------------------------------------------------------------
(* rerankResults applied to a list of hits and a query intent              *)

RrInit ==
  /\ rrPc = "start"
  /\ rrHits \in RerankHitLists
  /\ rrIntent \in RerankIntents
  /\ rrResult = <<>>
  /\ FbIdle
  /\ BlIdle
  /\ ChIdle
  /\ TxIdle
  /\ ClIdle
  /\ RlIdle

\* algoliaResults.hits = this.rerankResults(algoliaResults.hits, queryIntent)
RrRerank ==
  /\ rrPc = "start"
  /\ rrResult' = rerankResults(rrHits, rrIntent)
  /\ rrPc' = "done"
  /\ UNCHANGED <<rrHits, rrIntent, fbVars, blVars, chVars, txVars, clVars, rlVars>>

SpecRerank == RrInit /\ [][RrRerank]_vars

---------------------------------------------------------------------------
(* Properties of the link builder                                          *)

\* the urls of the primary link and of every related entry, in order
RECURSIVE RelatedUrls(_)
RelatedUrls(related) ==
  IF Len(related) = 0 THEN <<>>
  ELSE [i \in 1..Len(Head(related).entries) |-> Head(related).entries[i].url]
       \o RelatedUrls(Tail(related))

LinkUrls(links) ==
  [i \in 1..Len(links.primary) |-> links.primary[i].url] \o RelatedUrls(links.related)

\* C1: the primary link and all related entries of the result have pairwise
\* distinct base urls (the url with any '#fragment' removed), for every
\* combination of hit url and hit category.
C1_DistinctBaseUrls ==
  blPc = "done" =>
    LET urls == LinkUrls(blLinks)
    IN \A i, j \in 1..Len(urls) : i # j => BaseUrl(urls[i]) # BaseUrl(urls[j])

\* C2: each bucket of the related mapping holds at most 3 entries, the
\* injected guidelines entry included; later candidates are dropped.
C2_BucketCap ==
  blPc = "done" =>
    \A b \in 1..Len(blLinks.related) : Len(blLinks.related[b].entries) <= 3

\* the case of C2: a quickstart primary whose guidelines page is injected,
\* followed by three guidelines pages of which the third is dropped
C2_Witness ==
  /\ blPc = "done"
  /\ Len(blHits) = 4
  /\ HitCategory(blHits[1]) = "quickstart"
  /\ \A i \in 2..4 : HitCategory(blHits[i]) = "guidelines"
  /\ Cardinality({BaseUrl(blHits[i].url) : i \in 1..4} \cup {"/guidelines/campaign-api/"}) = 5
  /\ Len(blLinks.related) = 1
  /\ Len(blLinks.related[1].entries) = 3
  /\ blLinks.related[1].entries[1].url = "/guidelines/campaign-api/"
  /\ \A e \in 1..3 : blLinks.related[1].entries[e].url # BaseUrl(blHits[4].url)

---------------------------------------------------------------------------
(* Properties of the fallback router                                       *)

\* every (route index, keyword) pair of the table whose keyword the lowered
\* message contains
ContainedKeywords(lowerMessage) ==
  {p \in UNION {{<<r, k>> : k \in 1..Len(contentRoutes[r].keywords)} :
                  r \in 1..Len(contentRoutes)} :
     includes(lowerMessage, contentRoutes[p[1]].keywords[p[2]])}

KeywordAt(p) == contentRoutes[p[1]].keywords[p[2]]

\* a whole-word occurrence of term t in s, read without \b: the term stands
\* at some offset and the characters next to it, if any, are not word
\* characters
WholeWordOccurrence(s, t) ==
  \E i \in 1..(Len(s) - Len(t) + 1) :
    /\ SubSeq(s, i, i + Len(t) - 1) = t
    /\ (i = 1 \/ ~IsWordChar(SubSeq(s, i - 1, i - 1)))
    /\ (i + Len(t) - 1 = Len(s) \/ ~IsWordChar(SubSeq(s, i + Len(t), i + Len(t))))

HasAuthTerm(lowerMessage) ==
  \E t \in {"authenticate", "authentication", "login", "log in", "sign up", "signup",
             "oauth", "bearer token", "api key", "access token"} :
    WholeWordOccurrence(lowerMessage, t)

\* C3: for the query "update campaign status" the router returns the
\* status-update route (title 'Update Campaign Status', url
\* '/guidelines/campaign-api/#update-campaign-status').
C3_StatusUpdateRoute ==
  (fbPc = "done" /\ fbMessage = "update campaign status") =>
    /\ fbResult.actions = <<navigateAction("/guidelines/campaign-api/#update-campaign-status")>>
    /\ includes(fbResult.response,
                "[Update Campaign Status](/guidelines/campaign-api/#update-campaign-status)")

\* C4: longest-match law: when the auth check does not fire and the lowered
\* query contains a content-route keyword, the returned route owns a
\* contained keyword that is at least as long as every contained keyword.
C4_LongestMatch ==
  (fbPc = "done" /\ ~HasAuthTerm(toLowerCase(fbMessage))) =>
    LET found == ContainedKeywords(toLowerCase(fbMessage))
    IN found # {} =>
         \E p \in found :
           /\ \A q \in found : Len(KeywordAt(q)) <= Len(KeywordAt(p))
           /\ fbResult.actions = <<navigateAction(contentRoutes[p[1]].url)>>
           /\ includes(fbResult.response,
                       "[" \o contentRoutes[p[1]].title \o "](" \o contentRoutes[p[1]].url \o ")")

\* the case of C4: two contained keywords of different lengths
C4_Witness ==
  /\ fbPc = "done"
  /\ ~HasAuthTerm(toLowerCase(fbMessage))
  /\ \E p, q \in ContainedKeywords(toLowerCase(fbMessage)) :
       /\ Len(KeywordAt(p)) > Len(KeywordAt(q))
       /\ contentRoutes[p[1]].url # contentRoutes[q[1]].url
       /\ fbResult.actions = <<navigateAction(contentRoutes[p[1]].url)>>

\* C5: a whole-word auth term in the lowered query gives the fixed
\* Authentication Quickstart route, whatever content keywords it contains.
C5_AuthFirst ==
  (fbPc = "done" /\ HasAuthTerm(toLowerCase(fbMessage))) =>
    /\ fbResult.actions =
         <<navigateAction("/quickstart-guides/authentication-quickstart-guide/")>>
    /\ includes(fbResult.response,
         "[Authentication Quickstart](/quickstart-guides/authentication-quickstart-guide/)")
    /\ fbResult.fallback

\* the case of C5: an auth term beside a content keyword longer than it
C5_Witness ==
  /\ fbPc = "done"
  /\ HasAuthTerm(toLowerCase(fbMessage))
  /\ \E p \in ContainedKeywords(toLowerCase(fbMessage)) : Len(KeywordAt(p)) > Len("login")
  /\ fbResult.actions =
       <<navigateAction("/quickstart-guides/authentication-quickstart-guide/")>>

\* C6: the router returns exactly one of the auth response, a content-route
\* response, the generic response; the generic one if and only if neither
\* the auth pattern nor any keyword matches, with an empty action list; the
\* other two carry exactly one pending navigate action to the route's url.
C6_Total ==
  fbPc = "done" =>
    LET lower == toLowerCase(fbMessage)
        auth == HasAuthTerm(lower)
        found == ContainedKeywords(lower)
        generic == includes(fbResult.response, "I couldn't find a specific guide")
    IN /\ fbResult.fallback
       /\ generic <=> (~auth /\ found = {})
       /\ generic => fbResult.actions = <<>>
       /\ ~generic =>
            /\ Len(fbResult.actions) = 1
            /\ fbResult.actions[1].tool = "navigate"
            /\ fbResult.actions[1].status = "pending"
            /\ \E route \in {authRoute} \cup {contentRoutes[r] : r \in 1..Len(contentRoutes)} :
                 /\ fbResult.actions[1].params.path = route.url
                 /\ includes(fbResult.response,
                             "Check out the **[" \o route.title \o "](" \o route.url \o ")** guide.")
                 /\ (auth <=> route = authRoute)

\* the cases of C6: each of the three responses is returned
C6_WitnessGeneric ==
  fbPc = "done" /\ fbResult.actions = <<>> /\ fbMessage = "status update"

C6_Witness ==
  /\ fbPc = "done"
  /\ fbMessage = "radio"
  /\ fbResult.actions = <<navigateAction("/guidelines/campaign-api/#insertion-order-operations")>>

---------------------------------------------------------------------------
(* Properties of the chat pipeline                                         *)

\* the ways the generation call fails
GenerationFailed == llamaEnd \in LlamaFailures \cup {"timeout"}

\* the ways the search ends with nothing found
SearchEmpty ==
  \/ searchEnd \in {"unavailable", "error", "malformed"}
  \/ searchEnd = "hits" /\ Len(algoliaHits) = 0

\* the (title, url) pairs of a StructuredLinks value
StructuredPairs(links) ==
  {<<links.primary[k].title, links.primary[k].url>> : k \in 1..Len(links.primary)}
  \cup UNION {{<<links.related[b].entries[e].title, links.related[b].entries[e].url>> :
                 e \in 1..Len(links.related[b].entries)} : b \in 1..Len(links.related)}

\* the markdown links of a text, as (text, url) pairs
LinksIn(text) ==
  {<<LinkText(text, i), LinkUrl(text, i)>> : i \in {j \in 1..Len(text) : LinkAt(text, j)}}

\* C7: when the generation call fails (non-success status, unreadable payload,
\* rejected fetch, timeout), chat still answers the accepted request: the route
\* answers 200 with the value generateFallbackResponse gives for the same
\* message, and that value is marked fallback: true.
C7_GenerationFailureFallsBack ==
  pc = "done" =>
    /\ status = 200
    /\ GenerationFailed =>
         /\ response = generateFallbackResponse(request.message.value)
         /\ response.fallback = TRUE

\* a request whose generation call ended with a non-success status, answered by
\* a route of the fallback table
C7_Witness ==
  /\ pc = "done"
  /\ llamaEnd = "status"
  /\ status = 200
  /\ response.fallback = TRUE
  /\ Len(response.actions) = 1

\* C8: when the search ends with nothing (no client, a rejected request, a
\* malformed payload, or no hits), the generation call is still issued and its
\* prompt has no documentation context; chat answers 200, uses the fallback
\* router only if the generation call fails, and otherwise returns links with a
\* null primary and an empty related mapping, and no navigate action.
C8_SearchFailureProceeds ==
  pc \in {"generate", "done"} /\ SearchEmpty =>
    /\ calls # <<>>
    /\ \E k \in 1..Len(calls) : calls[k] = "generate"
    /\ ~includes(prompt, "DOCUMENTATION CONTEXT")
    /\ pc = "done" =>
         /\ status = 200
         /\ ("fallback" \in DOMAIN response) <=> GenerationFailed
         /\ ~GenerationFailed =>
              /\ response.links = noLinks
              /\ "actions" \notin DOMAIN response
              /\ "searchResults" \notin DOMAIN response

\* a request whose search payload was malformed and whose generation succeeded
C8_Witness ==
  /\ pc = "done"
  /\ searchEnd = "malformed"
  /\ llamaEnd = "ok"
  /\ response.links = noLinks
  /\ calls = <<"search", "generate">>

\* C9: every accepted chat request eventually completes with a response, even
\* when a collaborator never answers (each call would have to give up after an
\* explicit timeout).
C9_EventuallyCompletes ==
  (pc = "received" /\ Accepted(request.message)) ~> (pc = "done")

\* C10: in a response that is not a fallback, every markdown link of the final
\* text is one of the (title, url) pairs of the StructuredLinks returned with
\* it.
C10_LinksFromStructuredLinks ==
  pc = "done" /\ llamaEnd = "ok" =>
    LinksIn(response.response) \subseteq StructuredPairs(response.links)

---------------------------------------------------------------------------
(* Properties of the text functions                                        *)

\* C11: the cleanup is idempotent: cleaning a cleaned text again changes
\* nothing, stripMarkdownLinks(stripMarkdownLinks(t)) = stripMarkdownLinks(t).
C11_CleanupIdempotent ==
  txPc = "stripped" => stripMarkdownLinks(txResult) = txResult

\* the rules of the classifier, read on the lower-case query without \b
SpecialMarker(lower) ==
  \E marker \in {"migration", "migrate", "healthcare", "political", "pld", "vld"} :
    includes(lower, marker)

HasVerb(lower, verbs) == \E verb \in verbs : WholeWordOccurrence(lower, verb)

CreateVerbs ==
  {"create", "make", "build", "add", "new", "set up", "setup", "register", "sign up",
   "upload"}

UpdateVerbs == {"update", "edit", "modify", "change", "patch", "put", "delete", "remove"}

RetrievalVerbs == {"get", "fetch", "retrieve", "list", "find", "search", "query", "read"}

ConceptualMarkers ==
  {"what is", "what are", "explain", "understand", "overview", "concept", "difference",
   "between"}

\* C12: the result of detectQueryIntent is that of the first rule that
\* matches, in the order special marker (specific, specialCategory true),
\* create verb, update or delete verb, retrieval verb, conceptual marker,
\* and get when no rule matches.
C12_FirstMatchingRule ==
  txPc = "classified" =>
    LET lower == toLowerCase(txText)
    IN /\ txResult.specialCategory = (txResult.intent = "specific")
       /\ txResult.intent =
            IF SpecialMarker(lower) THEN "specific"
            ELSE IF HasVerb(lower, CreateVerbs) THEN "create"
            ELSE IF HasVerb(lower, UpdateVerbs) THEN "update"
            ELSE IF HasVerb(lower, RetrievalVerbs) THEN "get"
            ELSE IF HasVerb(lower, ConceptualMarkers) THEN "conceptual"
            ELSE "get"

\* a query with a create verb and an update verb, classified create
C12_Witness ==
  /\ txPc = "classified"
  /\ HasVerb(toLowerCase(txText), CreateVerbs)
  /\ HasVerb(toLowerCase(txText), UpdateVerbs)
  /\ txResult = [intent |-> "create", specialCategory |-> FALSE]

\* the tokens of a text: its maximal runs of characters that are not white
\* space, from left to right (from place i on)
RECURSIVE TokensFrom(_, _)
TokensFrom(s, i) ==
  LET start == Least({k \in i..Len(s) : ~IsSpace(SubSeq(s, k, k))})
      end == IF start = 0 THEN 0
             ELSE Least({k \in start..Len(s) : k = Len(s) \/ IsSpace(SubSeq(s, k + 1, k + 1))})
  IN IF start = 0 THEN <<>> ELSE <<SubSeq(s, start, end)>> \o TokensFrom(s, end + 1)

\* the tokens of the query that the extractor keeps: the lower-case query
\* without its punctuation, less the stop words and the single characters
KeptTokens(message) ==
  LET lower == toLowerCase(message)
      places == {j \in 1..Len(lower) :
                   SubSeq(lower, j, j) \notin {"?", "!", ".", ",", ";", ":", "'", "\""}}
      \* the lower-case query with the punctuation cut out
      cut == [n \in 1..Cardinality(places) |->
                LET k == CHOOSE j \in places : Cardinality({m \in places : m <= j}) = n
                IN SubSeq(lower, k, k)]
      text == IF places = {} THEN "" ELSE join(cut, "")
  IN SelectSeq(TokensFrom(text, 1), LAMBDA token : Len(token) # 1 /\ token \notin stopWords)

\* the expansion of an entity keyword, the token itself when it is no keyword
Expanded(token) ==
  LET entry == Least({k \in 1..Len(entityKeywords) : entityKeywords[k][1] = token})
  IN IF entry = 0 THEN token ELSE entityKeywords[entry][2]

\* C13: the search string is made of the tokens of the lower-case,
\* punctuation-free query that are neither stop words nor single characters,
\* in their order, with at most one of them expanded; "How do I create a
\* campaign?" gives the intent create and the search string "create campaign
\* api".
C13_KeptTokensInOrder ==
  /\ txPc = "extracted" /\ KeptTokens(txText) # <<>> =>
       LET kept == KeptTokens(txText)
       IN \/ txResult = join(kept, " ")
          \/ \E k \in 1..Len(kept) :
               txResult = join([kept EXCEPT ![k] = Expanded(kept[k])], " ")
  /\ txText = "How do I create a campaign?" =>
       /\ txPc = "extracted" => txResult = "create campaign api"
       /\ txPc = "classified" => txResult.intent = "create"

\* the example query, its filler words dropped and "campaign" expanded
C13_Witness ==
  /\ txPc = "extracted"
  /\ txText = "How do I create a campaign?"
  /\ KeptTokens(txText) = <<"create", "campaign">>
  /\ txResult = "create campaign api"

\* C14: when no token is kept the search string is the query as given, and
\* the search string of a query that is not empty is never empty.
C14_FallbackToQuery ==
  txPc = "extracted" =>
    /\ KeptTokens(txText) = <<>> => txResult = txText
    /\ txText # "" => txResult # ""

\* a query of stop words only, returned with its case and punctuation
C14_Witness ==
  /\ txPc = "extracted"
  /\ txText = "How do I?"
  /\ KeptTokens(txText) = <<>>
  /\ txResult = "How do I?"

---------------------------------------------------------------------------
(* Properties of the entity expansion                                      *)

\* the place of a token in the table of entity keywords, 0 when it is none
KeyIndex(token) == Least({k \in 1..Len(entityKeywords) : entityKeywords[k][1] = token})

\* the places of the kept tokens that are entity keywords
KeyPlaces(kept) == {i \in 1..Len(kept) : KeyIndex(kept[i]) # 0}

\* the kept tokens with the token at one place expanded
ExpandedAt(kept, place) == [kept EXCEPT ![place] = Expanded(kept[place])]

\* C27: one call expands at most one token: the search string is the kept
\* tokens in their order with exactly one entity keyword expanded when there
\* is one and none otherwise; the other entity keywords and the later
\* occurrences of the expanded keyword are output as they are.
C27_OneExpansion ==
  txPc = "extracted" /\ KeptTokens(txText) # <<>> =>
    LET kept == KeptTokens(txText)
        places == KeyPlaces(kept)
    IN IF places = {} THEN txResult = join(kept, " ")
       ELSE \E place \in places : txResult = join(ExpandedAt(kept, place), " ")

\* a query with two entity keywords, one of them twice: the first occurrence
\* of one keyword is expanded, its second occurrence and the other keyword stay
C27_Witness ==
  /\ txPc = "extracted"
  /\ txText = "campaign report campaign"
  /\ KeptTokens(txText) = <<"campaign", "report", "campaign">>
  /\ Cardinality(KeyPlaces(KeptTokens(txText))) = 3
  /\ txResult = "campaign api report campaign"

\* C28: the token expanded is the first occurrence of the keyword that comes
\* first in the table among the keywords of the query, wherever it stands in
\* the query: for the tokens campaign, audience it is audience.
C28_TableOrder ==
  txPc = "extracted" /\ KeyPlaces(KeptTokens(txText)) # {} =>
    LET kept == KeptTokens(txText)
        first == Least({KeyIndex(kept[i]) : i \in KeyPlaces(kept)})
        place == Least({i \in 1..Len(kept) : kept[i] = entityKeywords[first][1]})
    IN /\ txResult = join(ExpandedAt(kept, place), " ")
       /\ txText = "campaign audience" => txResult = "campaign audience api"

\* the keyword that is first in the table stands last in the query
C28_Witness ==
  /\ txPc = "extracted"
  /\ txText = "campaign audience"
  /\ KeptTokens(txText) = <<"campaign", "audience">>
  /\ KeyIndex("audience") < KeyIndex("campaign")
  /\ txResult = "campaign audience api"

---------------------------------------------------------------------------
(* Properties of the reranker and of the link builder                      *)

\* C15: under the intent create a quickstart document (quickstart category,
\* quickstart path) scores base 100 + category 100 + path 100, a reference
\* document scores base 100 + category 50, and the quickstart document is
\* ranked before the reference document.
C15_CreateRanking ==
  pc = "generate" /\ detectQueryIntent(request.message.value).intent = "create" =>
    \A i, j \in 1..Len(algoliaHits) :
      LET quickstart == /\ algoliaHits[i].category = "quickstart"
                        /\ includes(algoliaHits[i].url, "/quickstart-guides/")
          reference == algoliaHits[j].category = "reference"
      IN /\ quickstart => algoliaHits[i].intentScore = 100 + 100 + 100
         /\ reference => algoliaHits[j].intentScore = 100 + 50
         /\ quickstart /\ reference => i < j

\* C16: when the primary hit is a quickstart or a tutorial whose url has an
\* entry in the correspondence table, the 'API Guidelines' bucket of the
\* related links exists and its first entry is the mapped page, whether or not
\* that page is among the hits.
C16_GuidelinesInjected ==
  /\ blPc = "done"
  /\ Len(blHits) > 0
  /\ HitCategory(blHits[1]) \in {"quickstart", "tutorials"}
  /\ getCorrespondingGuidelinesUrl(blHits[1].url) # ""
  => LET b == BucketOf(blLinks.related, "API Guidelines")
     IN /\ b # 0
        /\ Len(blLinks.related[b].entries) > 0
        /\ blLinks.related[b].entries[1].url = getCorrespondingGuidelinesUrl(blHits[1].url)

\* the create-a-campaign quickstart is the primary hit, the campaign
\* guidelines page is not among the hits, another guidelines page is, and the
\* campaign guidelines page is the first related link all the same
C16_Witness ==
  /\ blPc = "done"
  /\ Len(blHits) > 1
  /\ blHits[1].url = "/quickstart-guides/create-a-campaign-quickstart/"
  /\ \A i \in 1..Len(blHits) : BaseUrl(blHits[i].url) # "/guidelines/campaign-api/"
  /\ \E i \in 2..Len(blHits) : HitCategory(blHits[i]) = "guidelines"
  /\ blLinks.related[1].label = "API Guidelines"
  /\ blLinks.related[1].entries[1].url = "/guidelines/campaign-api/"
  /\ Len(blLinks.related[1].entries) > 1

---------------------------------------------------------------------------
(* Properties of the chat route's validation                               *)

\* C17: a request whose message is missing, is not a string or is longer
\* than 2000 characters is answered 400 and never reaches AIService.chat (no
\* search terms are extracted, no collaborator is called, no chat value is
\* returned); a string message of 1 to 2000 characters is never answered 400
\* and is the message chat works on.
C17_MessageValidation ==
  LET message == request.message
      invalid == message.type # "string" \/ Len(message.value) > MaxMessageLength
      valid == message.type = "string" /\ Len(message.value) \in 1..MaxMessageLength
      answered400 == pc = "rejected" /\ status = 400
      chatNotCalled == calls = <<>> /\ query = "" /\ response = <<>>
      chatCalled == query = extractSearchTerms(message.value) /\ calls # <<>>
  IN /\ invalid => (pc = "received" \/ answered400)
     /\ invalid => chatNotCalled
     /\ valid => (pc # "rejected" /\ status # 400)
     /\ (valid /\ pc # "received") => chatCalled

\* a message of exactly 2000 characters went through chat to its answer
C17_Witness ==
  /\ pc = "done"
  /\ request.message.type = "string"
  /\ Len(request.message.value) = MaxMessageLength
  /\ "generate" \in {calls[i] : i \in 1..Len(calls)}
  /\ response # <<>>

\* a message of 2001 characters was answered 400
C17_WitnessTooLong ==
  /\ pc = "rejected"
  /\ status = 400
  /\ request.message.type = "string"
  /\ Len(request.message.value) = MaxMessageLength + 1

---------------------------------------------------------------------------
(* Properties of the assistant panel                                       *)

\* the path, with a leading slash added when it has none, starts with one of
\* the seven documentation prefixes
Whitelisted(path) ==
  LET withSlash == IF Len(path) > 0 /\ SubSeq(path, 1, 1) = "/" THEN path ELSE "/" \o path
  IN \E prefix \in {"/getting-started/", "/guidelines/", "/quickstart-guides/", "/tutorials/",
                     "/migration-guides/", "/political-vertical/", "/healthcare-vertical/"} :
       /\ Len(withSlash) >= Len(prefix)
       /\ \A k \in 1..Len(prefix) : SubSeq(withSlash, k, k) = SubSeq(prefix, k, k)

\* C18: the panel navigates for a navigate action of the reply only if the
\* path of the action is whitelisted: after the actions of a reply have been
\* handled the page is that of the last navigate action with a whitelisted
\* path, and when the reply has no such action the page is unchanged.
C18_NavigationWhitelist ==
  clPc = "done" =>
    LET allowed == {i \in 1..Len(clActions) :
                      clActions[i].tool = "navigate" /\ Whitelisted(clActions[i].path)}
    IN IF allowed = {}
         THEN /\ clBrowser.href = StartBrowser.href
              /\ clBrowser.currentPage = StartBrowser.currentPage
         ELSE \E i \in allowed :
                /\ \A j \in allowed : j <= i
                /\ clBrowser.href = clActions[i].path
                /\ clBrowser.currentPage = clActions[i].path

\* a reply with a navigate action to a path without its leading slash and
\* then one to an absolute url outside of the site: the first is followed,
\* the second is not
C18_Witness ==
  /\ clPc = "done"
  /\ Len(clActions) = 2
  /\ clActions[1].tool = "navigate" /\ clActions[2].tool = "navigate"
  /\ clActions[1].path = "quickstart-guides/create-a-campaign-quickstart/"
  /\ clActions[2].path = "//evil.example/guidelines/"
  /\ clBrowser.href = "quickstart-guides/create-a-campaign-quickstart/"

\* a reply whose only navigate actions have paths that are not whitelisted
\* left the page where it was
C18_WitnessRejected ==
  /\ clPc = "done"
  /\ Len(clActions) = 2
  /\ \A i \in 1..2 : clActions[i].tool = "navigate" /\ clActions[i].path # ""
  /\ clBrowser.href = StartBrowser.href

---------------------------------------------------------------------------
(* Properties of the rate limiter                                          *)

\* C19: at most MAX_REQUESTS = 20 requests of an identifier are passed to
\* next() in a window; a request is refused with 429, and next() is not
\* called, exactly when 20 requests of its identifier were passed on in the
\* window; and the request that follows the end of a window starts a new
\* window with a count of 1 and is passed on.
C19_RateLimit ==
  /\ [](\A id \in Identifiers : rlPassed[id] <= MAX_REQUESTS)
  /\ [](rlRequest.handled =>
          /\ rlAnswer.next = (rlAnswer.status # 429)
          /\ rlAnswer.status = 429 => rlPassed[Identifier(rlRequest)] = MAX_REQUESTS)
  /\ [][\A id \in Identifiers :
          /\ requestCounts'[id] # requestCounts[id]
          /\ requestCounts'[id] # noData
          => /\ rlPassed[id] = MAX_REQUESTS /\ rlNow - requestCounts[id].windowStart <= WINDOW_MS
                => rlAnswer'.status = 429
             /\ requestCounts[id] # noData /\ rlNow - requestCounts[id].windowStart > WINDOW_MS
                => /\ requestCounts'[id] = [count |-> 1, windowStart |-> rlNow]
                   /\ rlAnswer'.next
                   /\ rlPassed'[id] = 1]_vars

\* the twenty-first request of an address in a window is refused with 429
\* after twenty were passed on
C19_Witness ==
  /\ rlRequest.handled
  /\ rlAnswer.status = 429
  /\ ~rlAnswer.next
  /\ requestCounts[Identifier(rlRequest)].count = MAX_REQUESTS + 1
  /\ rlPassed[Identifier(rlRequest)] = MAX_REQUESTS

\* an address that was refused is passed on again in a new window
C19_WitnessNewWindow ==
  /\ rlRequest.handled
  /\ rlAnswer.next
  /\ rlNow > WINDOW_MS
  /\ requestCounts[Identifier(rlRequest)] = [count |-> 1, windowStart |-> rlNow]
  /\ \E header \in rlAnswer.headers :
        header = <<"X-RateLimit-Remaining", MAX_REQUESTS - 1>>

\* C20: the 429 answer of the rate limiter carries a retry-after header.
C20_RetryAfterHeader ==
  rlAnswer.status = 429 =>
    \E header \in rlAnswer.headers : toLowerCase(header[1]) = "retry-after"

---------------------------------------------------------------------------
(* Properties of the fallback router: ties                                 *)

\* C21: when the auth check does not fire, the route returned is the
\* earliest route of the table among the routes that own a contained keyword
\* of the greatest length: a keyword listed by two routes, or two keywords of
\* one length, resolve to the route registered first.
C21_EarliestRouteWinsTies ==
  (fbPc = "done" /\ ~HasAuthTerm(toLowerCase(fbMessage))) =>
    LET found == ContainedKeywords(toLowerCase(fbMessage))
        longest == {p \in found : \A q \in found : Len(KeywordAt(q)) <= Len(KeywordAt(p))}
    IN found # {} =>
         \E p \in longest :
           /\ \A q \in longest : p[1] <= q[1]
           /\ fbResult = buildFallbackResponse(contentRoutes[p[1]])

\* the query contains one keyword that two routes with different pages list,
\* and the answer is the page of the earlier route
C21_Witness ==
  /\ fbPc = "done"
  /\ ~HasAuthTerm(toLowerCase(fbMessage))
  /\ \E p, q \in ContainedKeywords(toLowerCase(fbMessage)) :
       /\ p[1] < q[1]
       /\ KeywordAt(p) = KeywordAt(q)
       /\ \A o \in ContainedKeywords(toLowerCase(fbMessage)) :
            Len(KeywordAt(o)) <= Len(KeywordAt(p))
       /\ contentRoutes[p[1]].url # contentRoutes[q[1]].url
       /\ fbResult.actions = <<navigateAction(contentRoutes[p[1]].url)>>

---------------------------------------------------------------------------
(* Properties of the chat pipeline: the calls of a request                 *)

\* C22: for one chat request the search is called at most once, the
\* generation at most once and after the search, and the fallback router at
\* most once, last, and only when the generation call failed; a call made is
\* never made again (the list of calls of a request only grows, by one call
\* at a step).
C22_CallsAtMostOnce ==
  /\ [](/\ calls \in {<<>>, <<"search">>, <<"generate">>, <<"search", "generate">>,
                       <<"generate", "fallback">>, <<"search", "generate", "fallback">>}
        /\ (\E k \in 1..Len(calls) : calls[k] = "fallback") => (pc = "done" /\ GenerationFailed))
  /\ [][pc' # "received" =>
          /\ Len(calls') <= Len(calls) + 1
          /\ SubSeq(calls', 1, Len(calls)) = calls]_vars

\* a request whose search was rejected and whose generation call failed:
\* each collaborator was called once, then the fallback router
C22_Witness ==
  /\ pc = "done"
  /\ searchEnd = "error"
  /\ llamaEnd = "network"
  /\ calls = <<"search", "generate", "fallback">>
  /\ response.fallback = TRUE

---------------------------------------------------------------------------
(* Properties of the chat response: the action and the primary link        *)

\* page is path without its fragment: path up to its first "#"
WithoutFragment(path, page) ==
  /\ \A k \in 1..Len(page) : SubSeq(page, k, k) # "#"
  /\ Len(page) <= Len(path)
  /\ SubSeq(path, 1, Len(page)) = page
  /\ Len(page) < Len(path) => SubSeq(path, Len(page) + 1, Len(page) + 1) = "#"

\* C29: in a response that is not a fallback there is a navigate action if and
\* only if there is a primary link; the action is then the only one, and its
\* path without the fragment is the url of the primary link.
C29_ActionMatchesPrimary ==
  pc = "done" /\ status = 200 /\ "fallback" \notin DOMAIN response =>
    LET hasAction == "actions" \in DOMAIN response
        hasPrimary == response.links.primary # <<>>
    IN /\ hasAction <=> hasPrimary
       /\ hasAction => Len(response.actions) = 1
       /\ hasAction => response.actions[1].tool = "navigate"
       /\ hasAction => WithoutFragment(response.actions[1].params.path, response.links.primary[1].url)

\* an answer whose top hit is a section of a page: the action goes to the
\* section, the primary link to the page
C29_Witness ==
  /\ pc = "done"
  /\ status = 200
  /\ "fallback" \notin DOMAIN response
  /\ "actions" \in DOMAIN response
  /\ response.actions[1].params.path # response.links.primary[1].url
  /\ response.actions[1].params.path = algoliaHits[1].url

\* an answer without hits: neither an action nor a primary link
C29_WitnessNoHits ==
  /\ pc = "done"
  /\ status = 200
  /\ "fallback" \notin DOMAIN response
  /\ "actions" \notin DOMAIN response
  /\ response.links.primary = <<>>

---------------------------------------------------------------------------
(* Properties of the reranker                                              *)

\* the hit returned is the hit given with the score added
SameHit(returned, given) ==
  /\ DOMAIN returned = DOMAIN given \cup {"intentScore"}
  /\ \A field \in DOMAIN given : returned[field] = given[field]

\* C23: rerankResults returns the hits it was given, each once, by score
\* descending, and hits of one score in the order they were given; an empty
\* list is returned as it is.
C23_StablePermutation ==
  rrPc = "done" =>
    /\ Len(rrResult) = Len(rrHits)
    /\ Len(rrHits) = 0 => rrResult = rrHits
    /\ \A k \in 1..(Len(rrResult) - 1) : rrResult[k].intentScore >= rrResult[k + 1].intentScore
    /\ \E place \in [1..Len(rrHits) -> 1..Len(rrHits)] :
         /\ \A i \in 1..Len(rrHits) : SameHit(rrResult[place[i]], rrHits[i])
         /\ \A i, j \in 1..Len(rrHits) :
              i < j => /\ place[i] # place[j]
                       /\ rrResult[place[i]].intentScore = rrResult[place[j]].intentScore
                          => place[i] < place[j]

\* three different hits, the first two of one score and the third of a
\* greater one: the third is returned first, then the first and the second
C23_Witness ==
  /\ rrPc = "done"
  /\ Len(rrHits) = 3
  /\ rrHits[1] # rrHits[2]
  /\ SameHit(rrResult[1], rrHits[3])
  /\ SameHit(rrResult[2], rrHits[1])
  /\ SameHit(rrResult[3], rrHits[2])
  /\ rrResult[1].intentScore > rrResult[2].intentScore
  /\ rrResult[2].intentScore = rrResult[3].intentScore

\* what the category of a returned hit added to its score: the score less the
\* score of the same hit without a category (for a category that is no
\* low-priority label)
CategoryBoost(hit) == hit.intentScore - intentScore([hit EXCEPT !.category = ""], rrIntent)

\* C24: the category adjustment of rerankResults is the table value of the
\* intent and of the category the hit carries: +100 for create and
\* quickstart, +60 for create and tutorials, +100 for conceptual and
\* "Getting Started", and 0 for every category under the intent 'specific'.
C24_CategoryPriority ==
  rrPc = "done" =>
    \A k \in 1..Len(rrResult) :
      LET category == rrResult[k].category
          boost == CategoryBoost(rrResult[k])
      IN /\ (rrIntent.intent = "create" /\ category = "quickstart") => boost = 100
         /\ (rrIntent.intent = "create" /\ category = "tutorials") => boost = 60
         /\ (rrIntent.intent = "conceptual" /\ category = "Getting Started") => boost = 100
         /\ rrIntent.intent = "specific" => boost = 0

\* the hit is migration, political or healthcare content: by the category
\* derived from its url, by a category label of the index, or by its url
LowPriorityDocument(hit) ==
  \/ hit.category \in {"migration", "political", "healthcare"}
  \/ \E label \in {"Xandr Migration", "DV360 Migration", "The Trade Desk Migration",
                     "Beeswax Migration", "Healthcare", "Political"} :
       includes(hit.category, label)
  \/ \E tree \in {"/migration-guides/", "/healthcare-vertical/", "/political-vertical/"} :
       includes(hit.url, tree)

\* what the low-priority rule took from the score of a returned hit: the
\* score the hit has when specialCategory is true, less its score
Demotion(hit) ==
  intentScore(hit, [rrIntent EXCEPT !.specialCategory = TRUE]) - hit.intentScore

C25_WitnessSpecial ==
  /\ rrPc = "done"
  /\ rrIntent.specialCategory
  /\ \E k \in 1..Len(rrResult) :
       rrResult[k].category = "migration" /\ rrResult[k].intentScore = 100

---------------------------------------------------------------------------
(* Properties of the link builder: the related links of a quickstart or    *)
(* tutorial                                                                *)

\* C26: when the primary hit is a quickstart or a tutorial the related
\* mapping has at most one bucket, labelled 'API Guidelines', and each of
\* its entries is the injected page of the correspondence table or the page
\* of a later hit whose category is 'guidelines'.
C26_OnlyGuidelinesRelated ==
  (blPc = "done" /\ Len(blHits) > 0 /\ HitCategory(blHits[1]) \in {"quickstart", "tutorials"}) =>
    /\ Len(blLinks.related) <= 1
    /\ \A b \in 1..Len(blLinks.related) :
         /\ blLinks.related[b].label = "API Guidelines"
         /\ \A e \in 1..Len(blLinks.related[b].entries) :
              LET url == blLinks.related[b].entries[e].url
              IN \/ e = 1 /\ url = getCorrespondingGuidelinesUrl(blHits[1].url)
                 \/ \E i \in 2..Len(blHits) :
                      HitCategory(blHits[i]) = "guidelines" /\ BaseUrl(blHits[i].url) = url

\* a tutorial without a page in the correspondence table is the primary hit,
\* a quickstart and a guidelines page follow: the quickstart is skipped and
\* the guidelines page is the only related link
C26_Witness ==
  /\ blPc = "done"
  /\ Len(blHits) = 3
  /\ HitCategory(blHits[1]) = "tutorials"
  /\ getCorrespondingGuidelinesUrl(blHits[1].url) = ""
  /\ HitCategory(blHits[2]) = "quickstart"
  /\ BaseUrl(blHits[2].url) # BaseUrl(blHits[1].url)
  /\ HitCategory(blHits[3]) = "guidelines"
  /\ Len(blLinks.related) = 1
  /\ blLinks.related[1].label = "API Guidelines"
  /\ Len(blLinks.related[1].entries) = 1
  /\ blLinks.related[1].entries[1].url = BaseUrl(blHits[3].url)

---------------------------------------------------------------------------
(* Properties of the rate limiter: intervals across two windows            *)

\* the requests of an identifier passed on from a time on, for WINDOW_MS
PassedIn(id, from) ==
  Cardinality({k \in DOMAIN rlLog :
                 rlLog[k].id = id /\ from <= rlLog[k].time /\ rlLog[k].time <= from + WINDOW_MS})

\* in no interval of WINDOW_MS more than twice MAX_REQUESTS requests of an
\* identifier were passed on; the intervals that start with a request passed
\* on are the ones that hold the most
IntervalBound ==
  \A id \in Identifiers, from \in {rlLog[k].time : k \in DOMAIN rlLog} :
    PassedIn(id, from) <= 2 * MAX_REQUESTS

\* a step that answers a request with 429 adds one to the count of the entry
\* and leaves its windowStart
RefusalCounted ==
  \A id \in Identifiers :
    (rlAnswer'.status = 429 /\ requestCounts'[id] # requestCounts[id] /\ requestCounts'[id] # noData)
      => /\ requestCounts[id] # noData
         /\ requestCounts'[id].count = requestCounts[id].count + 1
         /\ requestCounts'[id].windowStart = requestCounts[id].windowStart

\* C30: of the requests of one identifier, at most 2 * MAX_REQUESTS are
\* passed on in any interval of WINDOW_MS, and a request answered with 429
\* adds one to the count of its window without moving or restarting it.
C30_TwoWindowBound ==
  /\ []IntervalBound
  /\ [][RefusalCounted]_vars

\* three full windows: more than 2 * MAX_REQUESTS requests were passed on in
\* all, and 2 * MAX_REQUESTS - 1 of them in an interval of WINDOW_MS that
\* meets the first two windows
C30_Witness ==
  /\ Len(rlLog) > 2 * MAX_REQUESTS
  /\ \E k \in DOMAIN rlLog : PassedIn(rlLog[k].id, rlLog[k].time) = 2 * MAX_REQUESTS - 1
  /\ rlAnswer.next
  /\ requestCounts[Identifier(rlRequest)] = [count |-> MAX_REQUESTS, windowStart |-> rlNow]
  /\ rlNow > 2 * WINDOW_MS

\* a second refusal in one window: the count went on, the window stayed
C30_WitnessRefused ==
  /\ rlAnswer.status = 429
  /\ requestCounts[Identifier(rlRequest)].count = MAX_REQUESTS + 2
  /\ requestCounts[Identifier(rlRequest)].windowStart < rlNow

===========================================================================
